---- MODULE Spec2Model ----
(***************************************************************************)
(* Model of src/src/services/audio_processor.py: the quality analyzer, the *)
(* enhancer, the chunked processor and the orchestrator                    *)
(* (OptimizedAudioProcessor) with its background worker and job-status map.*)
(*                                                                         *)
(* Buffers are modelled by their length and the rate of their samples; a   *)
(* Python exception is a call outcome with raised = TRUE, and every        *)
(* try/except of the source is an operator that inspects that outcome.     *)
(* Optional values are sequences of length 0 (None) or 1.                  *)
(***************************************************************************)
EXTENDS Integers, Sequences, FiniteSets, TLC

VARIABLES
    processing_queue,   \* self.processing_queue: FIFO of (task_id, file_path, options)
    active_processes,   \* self.active_processes: task_id -> AudioProcessingResult
    worker_task,        \* per worker thread: the task it holds (<<>> when idle)
    clock,              \* the reading time.time() returns
    accepted,           \* history: tasks in the order process_audio_async accepted them
    recorded,           \* history: the jobs whose result the worker has stored (line 447)
    ret,                \* outcome of the last completed public call (None before it)
    call                \* the synchronous call under study and its environment

vars == <<processing_queue, active_processes, worker_task, clock, accepted, recorded,
          ret, call>>

-----------------------------------------------------------------------------
(* Bounds of the model *)

\* process_audio_async calls in one behaviour
MaxJobs == 3
\* clock readings are 0..MaxClock
MaxClock == 1

(* Program constants *)

\* AudioEnhancer.target_sample_rate
target_sample_rate == 16000
\* ChunkedAudioProcessor.chunk_duration (seconds)
chunk_duration == 30
\* ChunkedAudioProcessor.overlap_duration (seconds)
overlap_duration == 2
\* _process_audio_sync: chunk when the analysed duration exceeds this (seconds)
ChunkThreshold == 60

\* The import block sets AUDIO_LIBS_AVAILABLE.  numpy is the last import of the
\* try block, so whenever it is False the name np is unbound and the annotation
\* np.ndarray of line 93 raises NameError while the module is imported: every
\* OptimizedAudioProcessor that exists was built with the libraries available.
AUDIO_LIBS_AVAILABLE == TRUE

-----------------------------------------------------------------------------
(* Values *)

None == <<>>
Some(x) == <<x>>

Ok(v) == [raised |-> FALSE, exc |-> "None", value |-> <<v>>]
Raise(e) == [raised |-> TRUE, exc |-> e, value |-> <<>>]
Val(outcome) == outcome.value[1]

Paths == {"a.wav", "b.wav"}
TempPath == "tmp.wav"

Max(a, b) == IF a >= b THEN a ELSE b
Min(a, b) == IF a <= b THEN a ELSE b
CeilDiv(a, b) == (a + b - 1) \div b

RECURSIVE GCD(_, _)
GCD(a, b) == IF b = 0 THEN a ELSE GCD(b, a % b)

(* The state of a file on disk, as the library calls see it.  quality and *)
(* noise are what the numeric code of analyze_quality computes from the    *)
(* samples of the file, in thousandths.                                    *)
GoodFileWith(d, sr, ch, q, nl) ==
    [kind |-> "good", duration |-> d, sample_rate |-> sr, channels |-> ch,
     size |-> d * ch, quality |-> q, noise |-> nl]
GoodFile(d, sr, ch) == GoodFileWith(d, sr, ch, 500, 100)
BadFile(k) ==
    [kind |-> k, duration |-> 0, sample_rate |-> 0, channels |-> 0, size |-> 0,
     quality |-> 0, noise |-> 0]

Durations == {12, 60, 61, 90}
Rates == {16000, 44100}
GoodFiles == {GoodFile(d, sr, ch) : d \in Durations, sr \in Rates, ch \in {1, 2}}
FileStates ==
    GoodFiles
        \cup {BadFile(k) : k \in {"missing", "unreadable", "corrupt"}}

(* AudioMetadata (lines 38-49); duration_seconds is kept in milliseconds *)
(* and the three scores in thousandths.                                *)
AudioMetadata(d, sr, ch, fmt, size, q, nl, sp) ==
    [duration_seconds |-> d, sample_rate |-> sr, channels |-> ch, format |-> fmt,
     file_size_bytes |-> size, quality_score |-> q, noise_level |-> nl,
     speech_probability |-> sp]

(* AudioProcessingResult (lines 69-83); processing_time_seconds is left out. *)
(* path and written are not fields of the source: path names the branch of  *)
(* _process_audio_sync that built the result, written is the buffer that    *)
(* sf.write stored in the processed file (None when none was written).      *)
AudioProcessingResult(ok, orig, proc, md, qi, err, n, path, written) ==
    [success |-> ok, original_file |-> orig, processed_file |-> proc,
     metadata |-> md, quality_improvements |-> qi, error_message |-> err,
     chunks_processed |-> n, path |-> path, written |-> written]

(* A sample buffer: its length, the rate of its samples, the enhancer stages *)
(* that changed it and the number of chunks it was stitched from.           *)
Buffer(n, sr, ch, applied, parts) ==
    [n |-> n, sr |-> sr, ch |-> ch, applied |-> applied, parts |-> parts]

\* n samples at rate sr, as a duration in milliseconds (rounded down)
Millis(n, sr) == (n \div sr) * 1000 + ((n % sr) * 1000) \div sr

-----------------------------------------------------------------------------
(* Library calls *)

\* file_path.stat()
stat(st) == IF st.kind = "missing" THEN Raise("FileNotFoundError") ELSE Ok(st.size)

\* librosa.load(path, sr=None): the whole file, mixed down to mono, native rate
librosa_load(st) ==
    IF st.kind = "good"
    THEN Ok(Buffer(st.duration * st.sample_rate, st.sample_rate, 1, {}, 1))
    ELSE Raise("LoadError")

\* sf.info(path)
sf_info(st) == IF st.kind = "good" THEN Ok(st) ELSE Raise("InfoError")

\* librosa.load(path, sr=native, offset=.., duration=..): frames
\* [start, start + length) of the file, cut at its end
librosa_load_window(st, start, length) ==
    IF st.kind = "good"
    THEN LET total == st.duration * st.sample_rate
             from == Min(start, total)
             upto == Min(start + length, total)
         IN  Ok(Buffer(upto - from, st.sample_rate, 1, {}, 1))
    ELSE Raise("LoadError")

\* librosa.resample(y, orig_sr, target_sr): ceil(n * target / orig) samples
librosa_resample(buf, orig_sr, target_sr) ==
    LET g == GCD(orig_sr, target_sr)
    IN  Buffer(CeilDiv(buf.n * (target_sr \div g), orig_sr \div g), target_sr,
               buf.ch, buf.applied \cup {"resampling"}, buf.parts)

-----------------------------------------------------------------------------
(* AudioQualityAnalyzer *)

\* analyze_quality never raises: its body is one try whose handler returns the
\* neutral record with noise_level 1.0.  failed: the numeric code raised.
analyze_quality(st, failed) ==
    IF failed
    THEN [quality_score |-> 0, noise_level |-> 1000, speech_probability |-> 0]
    ELSE [quality_score |-> st.quality, noise_level |-> st.noise,
          speech_probability |-> 667]

(* The numeric code of the analyzer on the samples themselves.  A float is *)
(* kept in thousandths (a sample of 1.0 is 1000) or is NaN; the spectral     *)
(* centroid is kept in Hz.  numpy's mean of an empty array and its 0/0 give  *)
(* NaN with a warning, not an exception.                                    *)
Float(v) == [nan |-> FALSE, v |-> v]
NaN == [nan |-> TRUE, v |-> 0]

\* Python's min(a, b): b when b < a, else a; a comparison with NaN is false
py_min(a, b) == IF ~a.nan /\ ~b.nan /\ b.v < a.v THEN b ELSE a

\* a * num / den, a + b, a - b on floats
scale(a, num, den) == IF a.nan THEN NaN ELSE Float((a.v * num) \div den)
fadd(a, b) == IF a.nan \/ b.nan THEN NaN ELSE Float(a.v + b.v)
fsub(a, b) == IF a.nan \/ b.nan THEN NaN ELSE Float(a.v - b.v)

RECURSIVE SeqSum(_)
SeqSum(xs) == IF xs = <<>> THEN 0 ELSE Head(xs) + SeqSum(Tail(xs))

\* np.mean
np_mean(xs) == IF xs = <<>> THEN NaN ELSE Float(SeqSum(xs) \div Len(xs))

\* np.sqrt of a mean of squares of thousandths, in thousandths
np_sqrt(a) ==
    IF a.nan THEN NaN
    ELSE Float(CHOOSE r \in 0..1000 : r * r <= a.v /\ a.v < (r + 1) * (r + 1))

\* np.abs, element by element
np_abs(xs) == [k \in 1..Len(xs) |-> IF xs[k] < 0 THEN -xs[k] ELSE xs[k]]

\* np.sort
RECURSIVE np_sort(_)
np_sort(xs) ==
    IF xs = <<>> THEN <<>>
    ELSE LET k == CHOOSE i \in 1..Len(xs) : \A j \in 1..Len(xs) : xs[i] <= xs[j]
         IN  <<xs[k]>> \o np_sort(SubSeq(xs, 1, k - 1) \o SubSeq(xs, k + 1, Len(xs)))

\* line 97: np.sqrt(np.mean(audio_data ** 2))
rms_energy(audio_data) ==
    np_sqrt(np_mean([k \in 1..Len(audio_data) |-> audio_data[k] * audio_data[k]]))

\* lines 100-101: the sign changes between neighbours, over the length
zero_crossing_rate(audio_data) ==
    IF audio_data = <<>> THEN NaN
    ELSE Float((1000 * Cardinality({k \in 1..(Len(audio_data) - 1) :
                                       (audio_data[k] < 0) # (audio_data[k + 1] < 0)}))
               \div Len(audio_data))

\* _estimate_noise_level (lines 138-144): ten times the mean of the quietest
\* int(len * 0.1) magnitudes, capped at 1.0
estimate_noise_level(audio_data) ==
    py_min(scale(np_mean(SubSeq(np_sort(np_abs(audio_data)), 1,
                                Len(audio_data) \div 10)),
                 10, 1),
           Float(1000))

\* _calculate_quality_score (lines 169-188); spectral_centroid is in Hz
calculate_quality_score(rms, zcr, spectral_centroid, noise_level, speech_prob) ==
    LET energy_score == py_min(scale(rms, 10, 1), Float(1000))
        zcr_score == py_min(scale(zcr, 1000, 1), Float(1000))
        brightness_score == py_min(scale(spectral_centroid, 1000, 4000), Float(1000))
        noise_score == fsub(Float(1000), noise_level)
        quality == fadd(scale(energy_score, 3, 10),
                   fadd(scale(zcr_score, 2, 10),
                   fadd(scale(brightness_score, 2, 10),
                   fadd(scale(noise_score, 2, 10), scale(speech_prob, 1, 10)))))
    IN  py_min(quality, Float(1000))

\* The try block of analyze_quality (lines 96-125).  spectral is the outcome of
\* librosa.feature.spectral_centroid (Hz), speech_prob what
\* _estimate_speech_probability returned (it has a handler of its own).
quality_steps(audio_data, spectral, speech_prob) ==
    IF spectral.raised THEN spectral
    ELSE Ok([noise_level |-> estimate_noise_level(audio_data),
             speech_probability |-> speech_prob,
             quality_score |->
                 calculate_quality_score(rms_energy(audio_data),
                                         zero_crossing_rate(audio_data),
                                         Val(spectral),
                                         estimate_noise_level(audio_data),
                                         speech_prob)])

\* The handler of lines 127-136
quality_except(r) ==
    IF r.raised
    THEN [noise_level |-> Float(1000), speech_probability |-> Float(0),
          quality_score |-> Float(0)]
    ELSE Val(r)

\* analyze_quality (lines 93-136) on the samples of a buffer
analyze_quality_samples(audio_data, spectral, speech_prob) ==
    quality_except(quality_steps(audio_data, spectral, speech_prob))

-----------------------------------------------------------------------------
(* AudioEnhancer.  fail is the set of stages whose code raises in this call. *)

Stages == {"volume_normalization", "noise_reduction", "resampling",
           "mono_conversion", "highpass_filter"}

Mark(buf, stage) == Buffer(buf.n, buf.sr, buf.ch, buf.applied \cup {stage}, buf.parts)

\* _reduce_noise (lines 273-281): its own try returns the input on failure
reduce_noise(buf, fail) ==
    IF "noise_reduction" \in fail THEN buf ELSE Mark(buf, "noise_reduction")

\* A high-pass filter that marks the buffer although its code raised
apply_highpass_filter_always(buf, fail) == Mark(buf, "highpass_filter")

\* _apply_highpass_filter (lines 283-292): its own try returns the input on failure
apply_highpass_filter(buf, fail) ==
    IF "highpass_filter" \in fail THEN buf ELSE Mark(buf, "highpass_filter")

\* The try block of enhance_audio (lines 207-253)
enhance_steps(audio_data, sample_rate, fail) ==
    IF "volume_normalization" \in fail THEN Raise("volume_normalization")
    ELSE
    LET b1 == Mark(audio_data, "volume_normalization")
        b2 == reduce_noise(b1, fail)
        e2 == {"volume_normalization", "noise_reduction"}
    IN
    IF sample_rate # target_sample_rate /\ "resampling" \in fail
    THEN Raise("resampling")
    ELSE
    LET b3 == IF sample_rate # target_sample_rate
              THEN librosa_resample(b2, sample_rate, target_sample_rate)
              ELSE b2
        e3 == IF sample_rate # target_sample_rate THEN e2 \cup {"resampling"} ELSE e2
    IN
    IF b3.ch > 1 /\ "mono_conversion" \in fail
    THEN Raise("mono_conversion")
    ELSE
    LET b4 == IF b3.ch > 1
              THEN Buffer(b3.n, b3.sr, 1, b3.applied \cup {"mono_conversion"}, b3.parts)
              ELSE b3
        e4 == IF b3.ch > 1 THEN e3 \cup {"mono_conversion"} ELSE e3
        b5 == apply_highpass_filter(b4, fail)
    IN  Ok([audio |-> b5, enhancements |-> e4 \cup {"highpass_filter"}])

\* The handler of lines 255-257 returns the input buffer and no enhancements
enhance_except(audio_data, r) ==
    IF r.raised THEN [audio |-> audio_data, enhancements |-> {}] ELSE Val(r)

\* enhance_audio (lines 198-257)
enhance_audio(audio_data, sample_rate, fail) ==
    IF ~AUDIO_LIBS_AVAILABLE
    THEN [audio |-> audio_data, enhancements |-> {}]
    ELSE enhance_except(audio_data, enhance_steps(audio_data, sample_rate, fail))

-----------------------------------------------------------------------------
(* What the environment does during one call: the state of the file when it *)
(* is analysed (at) and afterwards (st), and which library calls fail.      *)
(*   quality_failed: the numeric code of analyze_quality raises             *)
(*   read_fail: the k-th chunk read raises (0: none does)                   *)
(*   enh_fail: the chunks (1-based; 1 on the direct path) in whose          *)
(*             enhancement the stages of `stages` raise                     *)
(*   tmp_ok, write_ok: NamedTemporaryFile and sf.write succeed              *)
(*   progress_callback: the callback the caller of process_large_file       *)
(*             supplies, and which of its invocations raises (0: none)      *)
Callback(supplied, raises_at) == [supplied |-> supplied, raises_at |-> raises_at]
NoCallback == Callback(FALSE, 0)

Env(at, st, qf, rf, ef, stg, tmp, wr) ==
    [at |-> at, st |-> st, quality_failed |-> qf, read_fail |-> rf,
     enh_fail |-> ef, stages |-> stg, tmp_ok |-> tmp, write_ok |-> wr,
     progress_callback |-> NoCallback]

WithCallback(env, progress_callback) ==
    [env EXCEPT !.progress_callback = progress_callback]

StageFail(env, k) == IF k \in env.enh_fail THEN env.stages ELSE {}

-----------------------------------------------------------------------------
(* ChunkedAudioProcessor *)

\* _concatenate_with_crossfade, the loop of lines 406-420 from chunk k on.
\* chunk[:overlap] * fade_in broadcasts only when the chunk holds at least
\* overlap samples (or exactly one); otherwise numpy raises ValueError.
RECURSIVE crossfade_from(_, _, _, _)
crossfade_from(result, chunks, k, overlap_samples) ==
    IF k > Len(chunks) THEN Ok(result)
    ELSE LET chunk == chunks[k]
             head == Min(chunk.n, overlap_samples)
         IN  IF overlap_samples > 0 /\ result.n >= overlap_samples
             THEN IF head # overlap_samples /\ head # 1
                  THEN Raise("ValueError")
                  ELSE crossfade_from(
                           Buffer(result.n + Max(0, chunk.n - overlap_samples),
                                  result.sr, result.ch,
                                  result.applied \cup chunk.applied,
                                  result.parts + chunk.parts),
                           chunks, k + 1, overlap_samples)
             ELSE crossfade_from(
                      Buffer(result.n + chunk.n, result.sr, result.ch,
                             result.applied \cup chunk.applied,
                             result.parts + chunk.parts),
                      chunks, k + 1, overlap_samples)

\* _concatenate_with_crossfade (lines 395-422)
concatenate_with_crossfade(chunks, overlap_samples) ==
    IF Len(chunks) = 0 THEN Ok(Buffer(0, 0, 1, {}, 0))
    ELSE IF Len(chunks) = 1 THEN Ok(chunks[1])
    ELSE crossfade_from(chunks[1], chunks, 2, overlap_samples)

(* The same stitching on the samples themselves: a chunk is the sequence of *)
(* its samples.  The weights of np.linspace(1, 0, n) and np.linspace(0, 1, n) *)
(* at index k (0-based) are (n-1-k)/(n-1) and k/(n-1), and 1 and 0 for n = 1; *)
(* the samples drawn are multiples of 8, which keeps the divisions exact.   *)
\* A fade-in that takes the incoming samples at full weight from the start
fade_in_full(overlap_samples, k) == Max(1, overlap_samples - 1)

FadeSteps(overlap_samples) == Max(1, overlap_samples - 1)
fade_out(overlap_samples, k) ==
    IF overlap_samples = 1 THEN 1 ELSE overlap_samples - 1 - k
fade_in(overlap_samples, k) == IF overlap_samples = 1 THEN 0 ELSE k

\* lines 413-414: the last overlap_samples samples of result, cross-faded with
\* the head of chunk (a head of one sample is broadcast over the region)
crossfaded_tail(result, chunk, overlap_samples) ==
    [k \in 1..overlap_samples |->
        (result[Len(result) - overlap_samples + k] * fade_out(overlap_samples, k - 1)
           + chunk[IF Len(chunk) = 1 THEN 1 ELSE k] * fade_in(overlap_samples, k - 1))
        \div FadeSteps(overlap_samples)]

\* The loop of lines 406-420 from chunk k on
RECURSIVE crossfade_samples_from(_, _, _, _)
crossfade_samples_from(result, chunks, k, overlap_samples) ==
    IF k > Len(chunks) THEN Ok(result)
    ELSE IF overlap_samples > 0 /\ Len(result) >= overlap_samples
    THEN IF Min(Len(chunks[k]), overlap_samples) \notin {overlap_samples, 1}
         THEN Raise("ValueError")
         ELSE crossfade_samples_from(
                  SubSeq(result, 1, Len(result) - overlap_samples)
                      \o crossfaded_tail(result, chunks[k], overlap_samples)
                      \o SubSeq(chunks[k], overlap_samples + 1, Len(chunks[k])),
                  chunks, k + 1, overlap_samples)
    ELSE crossfade_samples_from(result \o chunks[k], chunks, k + 1, overlap_samples)

\* A stitching that also fades a lone chunk out over its last overlap_samples
concatenate_samples_fading(chunks, overlap_samples) ==
    IF Len(chunks) = 1 /\ overlap_samples > 0 /\ Len(chunks[1]) >= overlap_samples
    THEN Ok(SubSeq(chunks[1], 1, Len(chunks[1]) - overlap_samples)
               \o crossfaded_tail(chunks[1], <<0>>, overlap_samples))
    ELSE crossfade_samples_from(chunks[1], chunks, 2, overlap_samples)

\* _concatenate_with_crossfade (lines 395-422) on sample sequences
concatenate_samples(chunks, overlap_samples) ==
    IF Len(chunks) = 0 THEN Ok(<<>>)
    ELSE IF Len(chunks) = 1 THEN Ok(chunks[1])
    ELSE crossfade_samples_from(chunks[1], chunks, 2, overlap_samples)

\* line 413 alone: the last overlap_samples samples of result, faded out
faded_tail(result, overlap_samples) ==
    [k \in 1..overlap_samples |->
        (result[Len(result) - overlap_samples + k] * fade_out(overlap_samples, k - 1))
        \div FadeSteps(overlap_samples)]

\* The array chunks[0] after _concatenate_with_crossfade.  result = chunks[0]
\* (line 404) binds the same array, and lines 413-414 work in place, so the
\* first pass of the loop writes into chunks[0]: line 413 always, line 414
\* unless its broadcast raises.  Line 417 or 420 then binds result to a new
\* array, and no later pass touches chunks[0].
first_chunk_after(chunks, overlap_samples) ==
    IF Len(chunks) >= 2 /\ overlap_samples > 0 /\ Len(chunks[1]) >= overlap_samples
    THEN SubSeq(chunks[1], 1, Len(chunks[1]) - overlap_samples)
         \o (IF Min(Len(chunks[2]), overlap_samples) \in {overlap_samples, 1}
             THEN crossfaded_tail(chunks[1], chunks[2], overlap_samples)
             ELSE faded_tail(chunks[1], overlap_samples))
    ELSE chunks[1]

\* The list of chunks after _concatenate_with_crossfade (lines 404-422): the
\* chunks after the first are only read
chunks_after(chunks, overlap_samples) ==
    [k \in 1..Len(chunks) |->
        IF k = 1 THEN first_chunk_after(chunks, overlap_samples) ELSE chunks[k]]

ChunkSamples(sample_rate) == chunk_duration * sample_rate
OverlapSamples(sample_rate) == overlap_duration * sample_rate
\* A chunk count without the floor of one chunk
NumChunksUncapped(total_samples, chunk_samples) == CeilDiv(total_samples, chunk_samples)

\* A chunk count that leaves out a last chunk shorter than chunk_samples
NumChunksFloor(total_samples, chunk_samples) == Max(1, total_samples \div chunk_samples)

\* line 322: max(1, ceil(total_samples / chunk_samples))
NumChunks(total_samples, chunk_samples) == Max(1, CeilDiv(total_samples, chunk_samples))

\* A window that starts on the nominal boundary of every chunk
window_start_on_boundary(chunk_idx, chunk_samples, overlap_samples) ==
    chunk_idx * chunk_samples

\* lines 336-347: where the window of chunk chunk_idx starts and how long it is
window_start(chunk_idx, chunk_samples, overlap_samples) ==
    chunk_idx * chunk_samples - (IF chunk_idx > 0 THEN overlap_samples ELSE 0)
window_length(chunk_idx, chunk_samples, overlap_samples) ==
    chunk_samples + (IF chunk_idx > 0 THEN overlap_samples ELSE 0)

\* librosa.load(offset, duration) on the samples of a signal: the window, cut
\* at the end of the signal
read_window(signal, start, length) ==
    SubSeq(signal, Min(Max(start, 0), Len(signal)) + 1,
           Min(Max(start, 0) + length, Len(signal)))

\* lines 318-348: the windows of a signal, in index order
split(signal, chunk_samples, overlap_samples) ==
    [i \in 1..NumChunks(Len(signal), chunk_samples) |->
        read_window(signal, window_start(i - 1, chunk_samples, overlap_samples),
                    window_length(i - 1, chunk_samples, overlap_samples))]

\* A callback whose exceptions are ignored
callback_never_raises(env, k) == FALSE

\* "if progress_callback: progress_callback(...)" (lines 324-325, 355-357):
\* the k-th invocation of the call raises
callback_raises(env, k) ==
    env.progress_callback.supplied /\ env.progress_callback.raises_at = k

\* lines 336-348: read the window of chunk chunk_idx (0-based); chunks after the
\* first start overlap_samples early and are that much longer
read_chunk(env, chunk_samples, overlap_samples, chunk_idx) ==
    IF env.read_fail = chunk_idx + 1
    THEN Raise("LoadError")
    ELSE librosa_load_window(
             env.st,
             chunk_idx * chunk_samples - (IF chunk_idx > 0 THEN overlap_samples ELSE 0),
             chunk_samples + (IF chunk_idx > 0 THEN overlap_samples ELSE 0))

\* The loop of lines 335-357 from chunk index chunk_idx on: the enhanced chunks
\* in index order, or the exception of a read.
RECURSIVE process_chunks(_, _, _, _, _, _, _)
\* A loop body that leaves out a chunk whose read raised and goes on
process_chunk_skipping(env, sample_rate, chunk_samples, overlap_samples, num_chunks, chunk_idx, processed_chunks, chunk_data) ==
    process_chunks(
        env, sample_rate, chunk_samples, overlap_samples, num_chunks, chunk_idx + 1,
        IF chunk_data.raised THEN processed_chunks
        ELSE Append(processed_chunks,
                    enhance_audio(Val(chunk_data), sample_rate,
                                  StageFail(env, chunk_idx + 1)).audio))

process_chunk(env, sample_rate, chunk_samples, overlap_samples, num_chunks, chunk_idx, processed_chunks, chunk_data) ==
    IF chunk_data.raised THEN chunk_data
    ELSE IF callback_raises(env, chunk_idx + 2) THEN Raise("CallbackError")
    ELSE process_chunks(
             env, sample_rate, chunk_samples, overlap_samples, num_chunks,
             chunk_idx + 1,
             Append(processed_chunks,
                    enhance_audio(Val(chunk_data), sample_rate,
                                  StageFail(env, chunk_idx + 1)).audio))

process_chunks(env, sample_rate, chunk_samples, overlap_samples, num_chunks, chunk_idx, processed_chunks) ==
    IF chunk_idx >= num_chunks THEN Ok(processed_chunks)
    ELSE process_chunk(env, sample_rate, chunk_samples, overlap_samples, num_chunks,
                       chunk_idx, processed_chunks,
                       read_chunk(env, chunk_samples, overlap_samples, chunk_idx))

\* lines 364-385: write the stitched audio and build the result
save_large_file(file_path, env, sample_rate, num_chunks, final_audio) ==
    IF final_audio.raised THEN final_audio
    ELSE IF ~env.write_ok THEN Raise("WriteError")
    ELSE Ok(AudioProcessingResult(
                TRUE, file_path, TempPath,
                Some(AudioMetadata(Millis(Val(final_audio).n, sample_rate),
                                   sample_rate, 1, "wav", Val(final_audio).n, 0, 0, 0)),
                {}, "None", num_chunks, "chunked", Some(Val(final_audio))))

\* lines 359-362: "if processed_chunks:" stitches; with no chunk the function
\* falls off its end and returns None
stitch_large_file(file_path, env, sample_rate, overlap_samples, num_chunks, chunks) ==
    IF chunks.raised THEN chunks
    ELSE IF Len(Val(chunks)) = 0 THEN [raised |-> FALSE, exc |-> "None", value |-> None]
    ELSE save_large_file(file_path, env, sample_rate, num_chunks,
                         concatenate_with_crossfade(Val(chunks), overlap_samples))

\* lines 314-357: the sizes, the temporary file, the chunks
chunk_large_file(file_path, env, sample_rate, total_samples) ==
    IF callback_raises(env, 1) THEN Raise("CallbackError")
    ELSE IF ~env.tmp_ok THEN Raise("OSError")
    ELSE stitch_large_file(
             file_path, env, sample_rate, OverlapSamples(sample_rate),
             NumChunks(total_samples, ChunkSamples(sample_rate)),
             process_chunks(env, sample_rate, ChunkSamples(sample_rate),
                            OverlapSamples(sample_rate),
                            NumChunks(total_samples, ChunkSamples(sample_rate)),
                            0, <<>>))

\* The invocations of the progress callback that the loop of lines 335-357
\* makes from chunk chunk_idx on: k stands for "Processed chunk k/num_chunks"
RECURSIVE chunk_progress(_, _, _, _, _)
chunk_progress(env, chunk_samples, overlap_samples, num_chunks, chunk_idx) ==
    IF chunk_idx >= num_chunks
           \/ read_chunk(env, chunk_samples, overlap_samples, chunk_idx).raised
    THEN <<>>
    ELSE <<chunk_idx + 1>>
         \o (IF callback_raises(env, chunk_idx + 2) THEN <<>>
             ELSE chunk_progress(env, chunk_samples, overlap_samples, num_chunks,
                                 chunk_idx + 1))

\* The invocations of the progress callback in one call of process_large_file,
\* in order; 0 stands for "Processing num_chunks chunks" (lines 324-325)
progress_calls(env) ==
    IF ~env.progress_callback.supplied \/ sf_info(env.st).raised THEN <<>>
    ELSE <<0>>
         \o (IF callback_raises(env, 1) \/ ~env.tmp_ok THEN <<>>
             ELSE chunk_progress(
                      env, ChunkSamples(env.st.sample_rate),
                      OverlapSamples(env.st.sample_rate),
                      NumChunks(env.st.duration * env.st.sample_rate,
                                ChunkSamples(env.st.sample_rate)),
                      0))

(* What one call of process_large_file does to its chunks, in the order in *)
(* which it does it: chunk is the 0-based index of the chunk.              *)
Event(ev, chunk) == [ev |-> ev, chunk |-> chunk]

\* A loop that reads every chunk before it enhances the first
loop_events_reading_ahead(env, chunk_samples, overlap_samples, num_chunks, chunk_idx) ==
    [k \in 1..(2 * num_chunks) |->
        IF k <= num_chunks THEN Event("read", k - 1)
        ELSE Event("enhance", k - 1 - num_chunks)]

\* The loop of lines 335-357 from chunk chunk_idx on: each pass loads its chunk
\* (line 343), then enhances it (line 352); a read or a callback that raises
\* ends the loop
RECURSIVE loop_events(_, _, _, _, _)
loop_events(env, chunk_samples, overlap_samples, num_chunks, chunk_idx) ==
    IF chunk_idx >= num_chunks THEN <<>>
    ELSE IF read_chunk(env, chunk_samples, overlap_samples, chunk_idx).raised
    THEN <<Event("read", chunk_idx)>>
    ELSE <<Event("read", chunk_idx), Event("enhance", chunk_idx)>>
         \o (IF callback_raises(env, chunk_idx + 2) THEN <<>>
             ELSE loop_events(env, chunk_samples, overlap_samples, num_chunks,
                              chunk_idx + 1))

\* lines 404-420: result starts as chunks[0] and takes in chunks[1:] in list
\* order; the chunks it took in before the call returned or raised.  The list
\* was filled by append (line 353), so position k holds chunk k - 1.
stitch_events(chunks, overlap_samples) ==
    LET done == {k \in 1..Len(chunks) :
                    ~concatenate_with_crossfade(SubSeq(chunks, 1, k),
                                                overlap_samples).raised}
        last == CHOOSE k \in done : \A j \in done : j <= k
    IN  [k \in 1..last |-> Event("stitch", k - 1)]

\* lines 335-362: the loop, then the stitching of the chunks it produced
chunk_events(env, sample_rate, total_samples, chunks) ==
    loop_events(env, ChunkSamples(sample_rate), OverlapSamples(sample_rate),
                NumChunks(total_samples, ChunkSamples(sample_rate)), 0)
    \o (IF chunks.raised \/ Len(Val(chunks)) = 0 THEN <<>>
        ELSE stitch_events(Val(chunks), OverlapSamples(sample_rate)))

\* The events of one call of process_large_file
job_events(env) ==
    IF sf_info(env.st).raised \/ callback_raises(env, 1) \/ ~env.tmp_ok THEN <<>>
    ELSE chunk_events(
             env, env.st.sample_rate, env.st.duration * env.st.sample_rate,
             process_chunks(env, env.st.sample_rate, ChunkSamples(env.st.sample_rate),
                            OverlapSamples(env.st.sample_rate),
                            NumChunks(env.st.duration * env.st.sample_rate,
                                      ChunkSamples(env.st.sample_rate)),
                            0, <<>>))

\* The try block of process_large_file (lines 312-385)
large_file_info(file_path, env, info) ==
    IF info.raised THEN info
    ELSE chunk_large_file(file_path, env, Val(info).sample_rate,
                          Val(info).duration * Val(info).sample_rate)

process_large_file_steps(file_path, env) ==
    large_file_info(file_path, env, sf_info(env.st))

\* The handler of lines 387-393 turns every exception of the try block into a
\* failure result
large_file_except(file_path, r) ==
    IF r.raised
    THEN Ok(AudioProcessingResult(FALSE, file_path, "None", None, {}, r.exc,
                                  0, "chunked", None))
    ELSE r

\* process_large_file (lines 308-393)
process_large_file(file_path, env) ==
    large_file_except(file_path, process_large_file_steps(file_path, env))

-----------------------------------------------------------------------------
(* OptimizedAudioProcessor *)

ErrorMetadata == AudioMetadata(0, 0, 0, "error", 0, 0, 0, 0)

\* lines 474-483: the metadata of a file that loaded
analysed_metadata(file_stats, quality_metrics, info) ==
    IF info.raised THEN info
    ELSE Ok(AudioMetadata(1000 * Val(info).duration, Val(info).sample_rate,
                          Val(info).channels, "wav", Val(file_stats),
                          quality_metrics.quality_score, quality_metrics.noise_level,
                          quality_metrics.speech_probability))

\* lines 464-492
analyze_loaded(env, file_stats, audio) ==
    IF audio.raised THEN audio
    ELSE analysed_metadata(file_stats, analyze_quality(env.at, env.quality_failed),
                           sf_info(env.at))

analyze_stat(env, file_stats) ==
    IF file_stats.raised THEN file_stats
    ELSE IF AUDIO_LIBS_AVAILABLE
    THEN analyze_loaded(env, file_stats, librosa_load(env.at))
    ELSE Ok(AudioMetadata(0, 0, 0, "unknown", Val(file_stats), 0, 0, 0))

\* The try block of analyze_audio_file (lines 461-492)
analyze_steps(env) == analyze_stat(env, stat(env.at))

\* An analyze_audio_file without its handler
analyze_no_except(r) == r

\* The handler of lines 494-502 returns the zeroed record with format "error"
analyze_except(r) == IF r.raised THEN Ok(ErrorMetadata) ELSE r

\* analyze_audio_file (lines 458-502)
analyze_audio_file(env) == analyze_except(analyze_steps(env))

\* lines 542-544: result.processing_time_seconds = ... fails on None
timed(result) ==
    IF result.raised THEN result
    ELSE IF result.value = None THEN Raise("AttributeError")
    ELSE result

\* A direct path that counts the whole file as one chunk
save_enhanced_counting(file_path, env, enhanced) ==
    IF ~env.tmp_ok THEN Raise("OSError")
    ELSE IF ~env.write_ok THEN Raise("WriteError")
    ELSE Ok(AudioProcessingResult(
                TRUE, file_path, TempPath,
                Some(AudioMetadata(Millis(enhanced.audio.n, target_sample_rate),
                                   target_sample_rate, 1, "wav",
                                   enhanced.audio.n, 0, 0, 0)),
                enhanced.enhancements, "None", 1, "direct", Some(enhanced.audio)))

\* lines 554-576: write the enhanced audio and build the result
save_enhanced(file_path, env, enhanced) ==
    IF ~env.tmp_ok THEN Raise("OSError")
    ELSE IF ~env.write_ok THEN Raise("WriteError")
    ELSE Ok(AudioProcessingResult(
                TRUE, file_path, TempPath,
                Some(AudioMetadata(Millis(enhanced.audio.n, target_sample_rate),
                                   target_sample_rate, 1, "wav",
                                   enhanced.audio.n, 0, 0, 0)),
                enhanced.enhancements, "None", 0, "direct", Some(enhanced.audio)))

\* lines 547-576: load and enhance the whole file
enhance_directly(file_path, env, audio) ==
    IF audio.raised THEN audio
    ELSE save_enhanced(file_path, env,
                       enhance_audio(Val(audio), Val(audio).sr, StageFail(env, 1)))

\* A chunking test that also takes a file of exactly the threshold
ShouldChunkAtThreshold(options, metadata) ==
    options.chunk_large_files /\ metadata.duration_seconds >= 1000 * ChunkThreshold

\* line 540: the file goes to the chunked processor
ShouldChunk(options, metadata) ==
    options.chunk_large_files /\ metadata.duration_seconds > 1000 * ChunkThreshold

\* line 546: the file goes to the enhancer
ShouldEnhance(options) == options.enhance_quality /\ AUDIO_LIBS_AVAILABLE

\* lines 540-586: the branch taken (path) and what the branch did
route(file_path, options, env, metadata) ==
    IF ShouldChunk(options, metadata)
    THEN [path |-> "chunked",
          outcome |-> timed(process_large_file(file_path,
                                               WithCallback(env, NoCallback)))]
    ELSE IF ShouldEnhance(options)
    THEN [path |-> "direct",
          outcome |-> enhance_directly(file_path, env, librosa_load(env.st))]
    ELSE [path |-> "passthrough",
          outcome |-> Ok(AudioProcessingResult(TRUE, file_path, file_path,
                                               Some(metadata), {}, "None", 0,
                                               "passthrough", None))]

analysed_route(file_path, options, env, analysed) ==
    IF analysed.raised THEN [path |-> "none", outcome |-> analysed]
    ELSE route(file_path, options, env, Val(analysed))

\* The try block of _process_audio_sync (lines 536-586)
process_steps(file_path, options, env) ==
    analysed_route(file_path, options, env, analyze_audio_file(env))

\* A _process_audio_sync without its handler: the exception reaches the caller
process_no_except(file_path, r) == r.outcome

\* A handler whose failure result names the input file as the processed file
process_except_keeping_file(file_path, r) ==
    IF r.outcome.raised
    THEN Ok(AudioProcessingResult(FALSE, file_path, file_path, None, {},
                                  r.outcome.exc, 0, r.path, None))
    ELSE r.outcome

\* The handler of lines 588-595 turns every exception of the try block into a
\* failure result
process_except(file_path, r) ==
    IF r.outcome.raised
    THEN Ok(AudioProcessingResult(FALSE, file_path, "None", None, {},
                                  r.outcome.exc, 0, r.path, None))
    ELSE r.outcome

\* _process_audio_sync (lines 531-595)
process_audio_sync_internal(file_path, options, env) ==
    process_except(file_path, process_steps(file_path, options, env))

\* process_audio_sync (lines 522-529)
process_audio_sync(file_path, enhance_quality, chunk_large_files, env) ==
    process_audio_sync_internal(
        file_path,
        [enhance_quality |-> enhance_quality, chunk_large_files |-> chunk_large_files],
        env)

(* The files a call creates in the scratch directory and does not remove.  *)
(* NamedTemporaryFile(delete=False) creates the file when it is called; no  *)
(* statement of process_large_file or _process_audio_sync removes it.       *)

\* process_large_file: the file of lines 328-329 exists once line 328 has run
scratch_files_large_file(env) ==
    IF sf_info(env.st).raised \/ callback_raises(env, 1) \/ ~env.tmp_ok THEN {}
    ELSE {TempPath}

\* the direct path: the file of lines 554-555 exists once line 554 has run
scratch_files_direct(env) ==
    IF librosa_load(env.st).raised \/ ~env.tmp_ok THEN {} ELSE {TempPath}

\* _process_audio_sync, by the branch of lines 540-586 that the call takes
scratch_files(options, env) ==
    IF ShouldChunk(options, Val(analyze_audio_file(env)))
    THEN scratch_files_large_file(WithCallback(env, NoCallback))
    ELSE IF ShouldEnhance(options) THEN scratch_files_direct(env)
    ELSE {}

\* get_optimization_recommendations (lines 615-637): the advisories, in order
get_optimization_recommendations(metadata) ==
    (IF metadata.quality_score < 300 THEN <<"poor_quality">> ELSE <<>>)
    \o (IF metadata.noise_level > 500 THEN <<"noise_reduction">> ELSE <<>>)
    \o (IF metadata.speech_probability < 400 THEN <<"verify_speech">> ELSE <<>>)
    \o (IF metadata.sample_rate > 48000 THEN <<"downsample">> ELSE <<>>)
    \o (IF metadata.channels > 1 THEN <<"mono">> ELSE <<>>)
    \o (IF metadata.duration_seconds > 1000 * 300 THEN <<"chunking">> ELSE <<>>)

\* A loop that skips an entry whose stat() raised and goes on
RECURSIVE cleanup_from_skipping(_, _, _, _)
cleanup_from_skipping(listing, k, max_age_seconds, removed) ==
    IF k > Len(listing) THEN Ok(removed)
    ELSE IF listing[k].stat_ok /\ listing[k].age > max_age_seconds
                               /\ listing[k].unlink_ok
    THEN cleanup_from_skipping(listing, k + 1, max_age_seconds,
                               removed \cup {listing[k].name})
    ELSE cleanup_from_skipping(listing, k + 1, max_age_seconds, removed)

\* The loop of cleanup_processed_files (lines 604-610) over the listing, from
\* entry k on.  An entry is [name, age, stat_ok, unlink_ok], age in seconds.
\* stat() is outside the inner try: when it raises the loop is left.
RECURSIVE cleanup_from(_, _, _, _)
cleanup_from(listing, k, max_age_seconds, removed) ==
    IF k > Len(listing) THEN Ok(removed)
    ELSE LET temp_file == listing[k]
         IN  IF ~temp_file.stat_ok
             THEN [raised |-> TRUE, exc |-> "FileNotFoundError", value |-> <<removed>>]
             ELSE IF temp_file.age > max_age_seconds /\ temp_file.unlink_ok
             THEN cleanup_from(listing, k + 1, max_age_seconds,
                               removed \cup {temp_file.name})
             ELSE cleanup_from(listing, k + 1, max_age_seconds, removed)

\* The handler of lines 612-613 logs whatever the loop raised
cleanup_except(r) == [raised |-> FALSE, exc |-> "None", value |-> r.value]

\* A cleanup that reads its argument as minutes
cleanup_processed_files_minutes(listing, max_age_hours) ==
    cleanup_except(cleanup_from(listing, 1, max_age_hours * 60, {}))

\* cleanup_processed_files (lines 597-613); the value is the set of files removed
cleanup_processed_files(listing, max_age_hours) ==
    cleanup_except(cleanup_from(listing, 1, max_age_hours * 3600, {}))

-----------------------------------------------------------------------------
(* TranscriptionService (transcription_service.py) *)

\* What the collaborators of the service do during one call: validate_audio_file
\* accepts the file, the recognizer can transcribe a readable file, the
\* database save succeeds
Service(valid, recognizer_ok, save_ok) ==
    [valid |-> valid, recognizer_ok |-> recognizer_ok, save_ok |-> save_ok]

\* TranscriptionResult, with what the call did: recognized is the file handed
\* to the recognizer (None when it was not called), processing_result the
\* result of process_audio_sync (None when it was not called), unlinked the
\* processed files the call removed
TranscriptionResult(success, recognized, processing_result, unlinked, error) ==
    [success |-> success, recognized |-> recognized,
     processing_result |-> processing_result, unlinked |-> unlinked, error |-> error]

\* How far the try block of transcribe_audio got
Attempt(raised, exc, processed_file_path, recognized, processing_result) ==
    [raised |-> raised, exc |-> exc, processed_file_path |-> processed_file_path,
     recognized |-> recognized, processing_result |-> processing_result]

\* A rule that also enhances audio exactly on the thresholds
should_enhance_inclusive(audio_metadata) ==
    \/ audio_metadata.quality_score <= 600
    \/ audio_metadata.noise_level >= 300
    \/ audio_metadata.duration_seconds >= 1000 * 300

\* lines 102-106
should_enhance(audio_metadata) ==
    \/ audio_metadata.quality_score < 600
    \/ audio_metadata.noise_level > 300
    \/ audio_metadata.duration_seconds > 1000 * 300

\* A caller that takes the processed file reference of any result
choose_file_of_any_result(file_path, processing_result) ==
    processing_result.processed_file

\* lines 118-127: the processed file of a success, else the original file
choose_file(file_path, processing_result) ==
    IF processing_result.success /\ processing_result.processed_file # "None"
    THEN processing_result.processed_file
    ELSE file_path

\* lines 129-158: the recognizer reads the chosen file, the transcript is saved
recognize(file_path, env, service, processed_file_path, processing_result) ==
    IF (processed_file_path = file_path /\ env.st.kind # "good")
           \/ processed_file_path = "None" \/ ~service.recognizer_ok
    THEN Attempt(TRUE, "RecognizerError", processed_file_path,
                 Some(processed_file_path), processing_result)
    ELSE IF ~service.save_ok
    THEN Attempt(TRUE, "DatabaseError", processed_file_path,
                 Some(processed_file_path), processing_result)
    ELSE Attempt(FALSE, "None", processed_file_path, Some(processed_file_path),
                 processing_result)

\* lines 112-127
optimized(file_path, env, service, processing_result) ==
    IF processing_result.raised
    THEN Attempt(TRUE, processing_result.exc, file_path, None, None)
    ELSE recognize(file_path, env, service,
                   choose_file(file_path, Val(processing_result)),
                   Some(Val(processing_result)))

\* lines 87-127: analysis, the should-enhance rule, the optimization
optimize(file_path, env, service, audio_metadata) ==
    IF should_enhance(Val(audio_metadata))
    THEN optimized(file_path, env, service,
                   process_audio_sync(file_path, TRUE,
                       Val(audio_metadata).duration_seconds > 1000 * 300, env))
    ELSE recognize(file_path, env, service, file_path, None)

\* The try block of transcribe_audio (lines 73-192)
transcribe_steps(file_path, env, service) ==
    IF ~service.valid
    THEN Attempt(TRUE, "File validation failed", file_path, None, None)
    ELSE optimize(file_path, env, service, analyze_audio_file(env))

\* lines 172-192 and the handler of lines 194-213: the processed file is
\* removed when it is not the input file, and the result is built
transcribe_except(file_path, a) ==
    TranscriptionResult(~a.raised, a.recognized, a.processing_result,
                        IF a.processed_file_path # file_path
                        THEN {a.processed_file_path} ELSE {},
                        a.exc)

\* transcribe_audio (lines 63-213)
transcribe_audio(file_path, env, service) ==
    transcribe_except(file_path, transcribe_steps(file_path, env, service))

-----------------------------------------------------------------------------
(* The orchestrator as a state machine *)

\* A constructor that starts a second worker thread
TwoWorkerThreads == {1, 2}

\* __init__ calls _setup_background_worker once, which starts one thread
WorkerThreads == {1}

\* hashlib.md5(f"{file_path}_{time.time()}").hexdigest(): the digest is taken
\* to be injective, so the id is the path and the time it is computed from
TaskId(file_path, now) == [digest_of |-> file_path, at |-> now]

Options == [enhance_quality : BOOLEAN, chunk_large_files : BOOLEAN]

\* self.active_processes.get(task_id)
Get(map, task_id) == IF task_id \in DOMAIN map THEN Some(map[task_id]) ELSE None

\* Environments of the calls made while the worker runs
JobEnvs ==
    {Env(at, at, FALSE, 0, {}, {}, TRUE, TRUE) :
        at \in {BadFile("missing"), GoodFile(61, 16000, 1)}}

\* Options of the calls made while the worker runs
JobOptions ==
    {[enhance_quality |-> b, chunk_large_files |-> b] : b \in BOOLEAN}

Init ==
    /\ processing_queue = <<>>
    /\ active_processes = [id \in {} |-> None]
    /\ worker_task = [w \in WorkerThreads |-> None]
    /\ clock = 0
    /\ accepted = <<>>
    /\ recorded = {}
    /\ ret = None
    /\ call = None

\* Time passes between two readings of time.time()
Tick ==
    /\ clock < MaxClock
    /\ clock' = clock + 1
    /\ UNCHANGED <<processing_queue, active_processes, worker_task, accepted,
                   recorded, ret, call>>

\* What a public call handed back to its caller
Returned(op, r) == Some([op |-> op, raised |-> r.raised, value |-> r.value])

\* line 432: queue.Queue() is built without a maxsize, which is maxsize 0
queue_maxsize == 0

\* queue.Queue.put blocks while the queue is full; a maxsize of 0 or less
\* means that the queue is never full
queue_full(q) == queue_maxsize > 0 /\ Len(q) >= queue_maxsize

\* process_audio_async (lines 504-516)
ProcessAsync(file_path, options) ==
    /\ Len(accepted) < MaxJobs
    /\ ~queue_full(processing_queue)
    /\ LET task == [task_id |-> TaskId(file_path, clock), file_path |-> file_path,
                    options |-> options, seq |-> Len(accepted) + 1]
       IN  /\ processing_queue' = Append(processing_queue, task)
           /\ accepted' = Append(accepted, task)
           /\ ret' = Returned("process_audio_async", Ok(task.task_id))
    /\ UNCHANGED <<active_processes, worker_task, clock, recorded, call>>

\* A get that hands out the newest item
queue_get_newest(q) == [item |-> q[Len(q)], rest |-> SubSeq(q, 1, Len(q) - 1)]

\* queue.Queue.get of a non-empty queue: the oldest item and the rest
queue_get(q) == [item |-> Head(q), rest |-> Tail(q)]

\* worker, line 441: self.processing_queue.get(timeout=1)
\* (on queue.Empty the loop continues without a change of state)
WorkerGet(w) ==
    /\ worker_task[w] = None
    /\ processing_queue # <<>>
    /\ worker_task' = [worker_task EXCEPT ![w] = Some(queue_get(processing_queue).item)]
    /\ processing_queue' = queue_get(processing_queue).rest
    /\ UNCHANGED <<active_processes, clock, accepted, recorded, ret, call>>

\* worker, lines 446-452: store the result under the task's id; an exception
\* is logged by the handler of lines 451-452 and nothing is stored
Store(task, result) ==
    IF result.raised
    THEN UNCHANGED <<active_processes, recorded>>
    ELSE /\ active_processes' = (task.task_id :> Val(result)) @@ active_processes
         /\ recorded' = recorded \cup {task.seq}

\* worker, lines 445-452: process the task the thread holds
WorkerRun(w, env) ==
    /\ worker_task[w] # None
    /\ Store(worker_task[w][1],
             process_audio_sync_internal(worker_task[w][1].file_path,
                                         worker_task[w][1].options, env))
    /\ worker_task' = [worker_task EXCEPT ![w] = None]
    /\ UNCHANGED <<processing_queue, clock, accepted, ret, call>>

\* get_processing_status (lines 518-520): a read of the map
get_processing_status(task_id) == Get(active_processes, task_id)

\* process_audio_sync (lines 522-529), on the caller's thread
ProcessSync(file_path, enhance_quality, chunk_large_files, env) ==
    /\ ret' = Returned("process_audio_sync",
                       process_audio_sync(file_path, enhance_quality,
                                          chunk_large_files, env))
    /\ UNCHANGED <<processing_queue, active_processes, worker_task, clock, accepted,
                   recorded, call>>

Next ==
    \/ Tick
    \/ \E p \in Paths, o \in JobOptions : ProcessAsync(p, o)
    \/ \E w \in WorkerThreads : WorkerGet(w)
    \/ \E w \in WorkerThreads, env \in JobEnvs : WorkerRun(w, env)
    \/ \E env \in JobEnvs : ProcessSync("a.wav", TRUE, TRUE, env)

Spec == Init /\ [][Next]_vars

\* The worker hands back the task it holds: the step that every WorkerRun(w, env)
\* is, and no other step of Next
WorkerDone(w) ==
    /\ worker_task[w] # None
    /\ worker_task' = [worker_task EXCEPT ![w] = None]

\* The worker thread loops for ever (while True, lines 439-452): as long as it
\* is scheduled, a get of a non-empty queue and the run of the task it holds
\* happen.
FairSpec ==
    /\ Spec
    /\ \A w \in WorkerThreads :
           /\ WF_vars(WorkerGet(w))
           /\ WF_worker_task(WorkerDone(w))

-----------------------------------------------------------------------------
(* One call of a public operation, for every input and environment of the  *)
(* sets below                                                               *)

\* The enhancer stages that raise, and the chunks in which they do
EnhFaults ==
    {<<{}, {}>>, <<{1}, {"volume_normalization"}>>, <<{2}, {"resampling"}>>,
     <<{3}, {"resampling"}>>, <<{1, 2, 3}, {"noise_reduction", "highpass_filter"}>>}

IoFaults == {<<TRUE, TRUE>>, <<FALSE, TRUE>>, <<TRUE, FALSE>>}

SyncEnv(at, gone, qf, rf, ef, io) ==
    Env(at, IF gone THEN BadFile("missing") ELSE at, qf, rf, ef[1], ef[2],
        io[1], io[2])

NoEnv == Env(BadFile("missing"), BadFile("missing"), FALSE, 0, {}, {}, TRUE, TRUE)
NoOptions == [enhance_quality |-> FALSE, chunk_large_files |-> FALSE]
NoService == Service(TRUE, TRUE, TRUE)
NoArgs == [chunks |-> <<>>, overlap_samples |-> 0]

\* Sample sequences of up to MaxSamples samples, lists of up to three chunks,
\* signals of up to MaxSignal samples
Samples == {0, 8}
MaxSamples == 3
MaxSignal == 5
SampleSeqs(n) == UNION {[1..k -> Samples] : k \in 0..n}
ChunkLists ==
    {<<a>> : a \in SampleSeqs(MaxSamples)}
        \cup {<<a, b>> : a \in SampleSeqs(MaxSamples), b \in SampleSeqs(MaxSamples)}
        \cup {<<a, b, c>> : a \in SampleSeqs(2), b \in SampleSeqs(2), c \in SampleSeqs(2)}

\* Buffers for the analyzer: up to MaxBuffer samples on one or two levels
\* (silence, a faint hum, full scale of either sign), so that all-zero,
\* saturated and very short buffers are among them
MaxBuffer == 12
Levels == {-1000, 0, 5, 1000}
AnalysisBuffers ==
    {[k \in 1..n |-> IF k <= j THEN a ELSE b] :
        n \in 0..MaxBuffer, j \in 0..MaxBuffer, a \in Levels, b \in Levels}
\* What librosa.feature.spectral_centroid does (it raises, or a mean in Hz) and
\* what _estimate_speech_probability returns (0.5 from its handler)
SpectralOutcomes == {Raise("ParameterError")} \cup {Ok(Float(hz)) : hz \in {0, 2000, 8000}}
SpeechProbabilities == {Float(v) : v \in {0, 333, 500, 667, 1000}}

\* Files of one, three and fourteen chunks and a missing file; no callback, a callback that
\* returns, callbacks that raise at one of their invocations
LargeFiles ==
    {GoodFile(d, sr, 1) : d \in {0, 61, 90, 400}, sr \in Rates}
        \cup {BadFile("missing")}
Callbacks == {NoCallback} \cup {Callback(TRUE, k) : k \in 0..4}

\* Files around the thresholds of the should-enhance rule
ServiceFiles ==
    {GoodFileWith(d, 16000, 1, q, nl) :
        d \in {10, 300, 301}, q \in {500, 599, 600, 900}, nl \in {100, 300, 301}}
        \cup {BadFile(k) : k \in {"missing", "corrupt"}}
Services == {Service(v, r, sv) : v \in BOOLEAN, r \in BOOLEAN, sv \in BOOLEAN}

Call(op, file_path, options, env, metadata, listing, max_age_hours, service, args) ==
    [op |-> op, file_path |-> file_path, options |-> options, env |-> env,
     metadata |-> metadata, listing |-> listing, max_age_hours |-> max_age_hours,
     service |-> service, args |-> args]

\* Metadata records around the thresholds of the recommendations
SomeMetadata ==
    {AudioMetadata(d, sr, ch, "wav", 0, q, nl, sp) :
        d \in {10000, 300000, 301000}, sr \in {16000, 48000, 96000}, ch \in {1, 2},
        q \in {299, 300}, nl \in {500, 501}, sp \in {399, 400}}

\* Entries of the scratch directory: 1 h, 24 h, 24 h + 1 s and 30 h old
TempEntries(name) ==
    [name : {name}, age : {3600, 86400, 86401, 108000}, stat_ok : BOOLEAN,
     unlink_ok : BOOLEAN]
Listings ==
    {<<>>} \cup {<<a>> : a \in TempEntries("tmp1.wav")}
           \cup {<<a, b>> : a \in TempEntries("tmp1.wav"), b \in TempEntries("tmp2.wav")}

InitCall ==
    /\ processing_queue = <<>>
    /\ active_processes = [id \in {} |-> None]
    /\ worker_task = [w \in WorkerThreads |-> None]
    /\ clock = 0
    /\ accepted = <<>>
    /\ recorded = {}
    /\ ret = None
    /\ \/ \E p \in Paths, o \in Options, at \in FileStates, gone \in BOOLEAN,
             qf \in BOOLEAN, rf \in 0..3, ef \in EnhFaults, io \in IoFaults :
              call = Some(Call("process_audio_sync", p, o,
                               SyncEnv(at, gone, qf, rf, ef, io),
                               ErrorMetadata, <<>>, 0, NoService, NoArgs))
       \/ \E p \in Paths, o \in Options, at \in FileStates, gone \in BOOLEAN,
             qf \in BOOLEAN, rf \in 0..3, ef \in EnhFaults, io \in IoFaults :
              call = Some(Call("process_audio_async", p, o,
                               SyncEnv(at, gone, qf, rf, ef, io),
                               ErrorMetadata, <<>>, 0, NoService, NoArgs))
       \/ \E p \in Paths, at \in FileStates, qf \in BOOLEAN :
              call = Some(Call("analyze_audio_file", p, NoOptions,
                               SyncEnv(at, FALSE, qf, 0, <<{}, {}>>, <<TRUE, TRUE>>),
                               ErrorMetadata, <<>>, 0, NoService, NoArgs))
       \/ \E at \in ServiceFiles, gone \in BOOLEAN, qf \in BOOLEAN, io \in IoFaults,
             service \in Services :
              call = Some(Call("transcribe_audio", "a.wav", NoOptions,
                               SyncEnv(at, gone, qf, 0, <<{}, {}>>, io),
                               ErrorMetadata, <<>>, 0, service, NoArgs))
       \/ \E p \in Paths, at \in LargeFiles, rf \in 0..3, io \in IoFaults,
             cb \in Callbacks :
              call = Some(Call("process_large_file", p, NoOptions,
                               WithCallback(
                                   SyncEnv(at, FALSE, FALSE, rf, <<{}, {}>>, io), cb),
                               ErrorMetadata, <<>>, 0, NoService, NoArgs))
       \/ \E chunks \in ChunkLists, overlap_samples \in 0..MaxSamples :
              call = Some(Call("concatenate_with_crossfade", "a.wav", NoOptions,
                               NoEnv, ErrorMetadata, <<>>, 0, NoService,
                               [chunks |-> chunks,
                                overlap_samples |-> overlap_samples]))
       \/ \E signal \in SampleSeqs(MaxSignal), chunk_samples \in 1..MaxSamples,
             overlap_samples \in 0..2 :
              call = Some(Call("split_and_stitch", "a.wav", NoOptions,
                               NoEnv, ErrorMetadata, <<>>, 0, NoService,
                               [signal |-> signal, chunk_samples |-> chunk_samples,
                                overlap_samples |-> overlap_samples]))
       \/ \E audio_data \in AnalysisBuffers, spectral \in SpectralOutcomes,
             speech_prob \in SpeechProbabilities :
              call = Some(Call("analyze_quality", "a.wav", NoOptions,
                               NoEnv, ErrorMetadata, <<>>, 0, NoService,
                               [audio_data |-> audio_data, spectral |-> spectral,
                                speech_prob |-> speech_prob]))
       \/ \E at \in GoodFiles, fail \in SUBSET Stages :
              call = Some(Call("enhance_audio", "a.wav", NoOptions,
                               Env(at, at, FALSE, 0, {1}, fail, TRUE, TRUE),
                               ErrorMetadata, <<>>, 0, NoService, NoArgs))
       \/ \E m \in SomeMetadata :
              call = Some(Call("get_optimization_recommendations", "a.wav",
                               NoOptions, NoEnv, m, <<>>, 0, NoService, NoArgs))
       \/ \E l \in Listings, h \in {0, 24} :
              call = Some(Call("cleanup_processed_files", "a.wav", NoOptions,
                               NoEnv, ErrorMetadata, l, h, NoService, NoArgs))

Pending(op) == call # None /\ ret = None /\ call[1].op = op

SyncProcess ==
    /\ Pending("process_audio_sync")
    /\ ProcessSync(call[1].file_path, call[1].options.enhance_quality,
                   call[1].options.chunk_large_files, call[1].env)

\* analyze_audio_file as a public call
SyncAnalyze ==
    /\ Pending("analyze_audio_file")
    /\ ret' = Returned("analyze_audio_file", analyze_audio_file(call[1].env))
    /\ UNCHANGED <<processing_queue, active_processes, worker_task, clock, accepted,
                   recorded, call>>

SyncRecommend ==
    /\ Pending("get_optimization_recommendations")
    /\ ret' = Some([op |-> "get_optimization_recommendations", raised |-> FALSE,
                    value |-> Some(get_optimization_recommendations(call[1].metadata))])
    /\ UNCHANGED <<processing_queue, active_processes, worker_task, clock, accepted,
                   recorded, call>>

SyncCleanup ==
    /\ Pending("cleanup_processed_files")
    /\ ret' = Returned("cleanup_processed_files",
                       cleanup_processed_files(call[1].listing, call[1].max_age_hours))
    /\ UNCHANGED <<processing_queue, active_processes, worker_task, clock, accepted,
                   recorded, call>>

\* The buffer handed to enhance_audio as a call of its own: the samples of the
\* file of the call, all its channels kept
CallAudio ==
    Buffer(call[1].env.at.duration * call[1].env.at.sample_rate,
           call[1].env.at.sample_rate, call[1].env.at.channels, {}, 1)

\* enhance_audio as a call of its own
SyncEnhance ==
    /\ Pending("enhance_audio")
    /\ ret' = Returned("enhance_audio",
                       Ok(enhance_audio(CallAudio, CallAudio.sr,
                                        StageFail(call[1].env, 1))))
    /\ UNCHANGED <<processing_queue, active_processes, worker_task, clock, accepted,
                   recorded, call>>

\* analyze_quality as a call of its own, on the samples of a buffer
SyncQuality ==
    /\ Pending("analyze_quality")
    /\ ret' = Returned("analyze_quality",
                       Ok(analyze_quality_samples(call[1].args.audio_data,
                                                  call[1].args.spectral,
                                                  call[1].args.speech_prob)))
    /\ UNCHANGED <<processing_queue, active_processes, worker_task, clock, accepted,
                   recorded, call>>

\* _concatenate_with_crossfade as a call of its own, on sample sequences
SyncStitch ==
    /\ Pending("concatenate_with_crossfade")
    /\ ret' = Returned("concatenate_with_crossfade",
                       concatenate_samples(call[1].args.chunks,
                                           call[1].args.overlap_samples))
    /\ UNCHANGED <<processing_queue, active_processes, worker_task, clock, accepted,
                   recorded, call>>

\* The windows of a signal, read as process_large_file reads them, stitched
\* back together without any enhancement in between
SyncSplitStitch ==
    /\ Pending("split_and_stitch")
    /\ ret' = Returned("split_and_stitch",
                       concatenate_samples(
                           split(call[1].args.signal, call[1].args.chunk_samples,
                                 call[1].args.overlap_samples),
                           call[1].args.overlap_samples))
    /\ UNCHANGED <<processing_queue, active_processes, worker_task, clock, accepted,
                   recorded, call>>

\* ChunkedAudioProcessor.process_large_file as a call of its own
SyncLargeFile ==
    /\ Pending("process_large_file")
    /\ ret' = Returned("process_large_file",
                       process_large_file(call[1].file_path, call[1].env))
    /\ UNCHANGED <<processing_queue, active_processes, worker_task, clock, accepted,
                   recorded, call>>

\* TranscriptionService.transcribe_audio as the call under study
SyncTranscribe ==
    /\ Pending("transcribe_audio")
    /\ ret' = Returned("transcribe_audio",
                       Ok(transcribe_audio(call[1].file_path, call[1].env,
                                           call[1].service)))
    /\ UNCHANGED <<processing_queue, active_processes, worker_task, clock, accepted,
                   recorded, call>>

\* process_audio_async as the call under study, and the worker's run of its job
CallAsync ==
    /\ Pending("process_audio_async")
    /\ ProcessAsync(call[1].file_path, call[1].options)

CallWorkerRun(w) ==
    /\ call # None
    /\ WorkerRun(w, call[1].env)

NextCall ==
    \/ SyncProcess
    \/ SyncAnalyze
    \/ SyncRecommend
    \/ SyncCleanup
    \/ SyncEnhance
    \/ SyncTranscribe
    \/ SyncLargeFile
    \/ SyncStitch
    \/ SyncSplitStitch
    \/ SyncQuality
    \/ CallAsync
    \/ \E w \in WorkerThreads : WorkerGet(w)
    \/ \E w \in WorkerThreads : CallWorkerRun(w)

SpecCall == InitCall /\ [][NextCall]_vars

-----------------------------------------------------------------------------
(* Properties *)

\* The results a state shows: the one the last process_audio_sync call
\* returned and the ones stored for async jobs
ProducedResults ==
    (IF ret # None /\ ret[1].op = "process_audio_sync" /\ ~ret[1].raised
     THEN {ret[1].value[1]} ELSE {})
    \cup {active_processes[id] : id \in DOMAIN active_processes}

\* The duration (seconds) the analysis of the call under study reports
AnalysedSeconds == IF call[1].env.at.kind = "good" THEN call[1].env.at.duration ELSE 0

\* C1: every process call takes exactly one path: the chunked processor iff
\* chunk_large_files and the analysed duration is strictly above 60 s, otherwise
\* the enhancer iff enhance_quality, otherwise pass-through, which returns
\* success with the original file as processed file and nothing transformed.
C1_Routing ==
    call # None =>
        \A res \in ProducedResults :
            LET chunk == call[1].options.chunk_large_files /\ AnalysedSeconds > 60
                enhance == call[1].options.enhance_quality
            IN  /\ res.path \in {"chunked", "direct", "passthrough"}
                /\ res.path = "chunked" <=> chunk
                /\ res.path = "direct" <=> (~chunk /\ enhance)
                /\ res.path = "passthrough" <=> (~chunk /\ ~enhance)
                /\ res.path = "passthrough" =>
                       /\ res.success
                       /\ res.original_file = call[1].file_path
                       /\ res.processed_file = res.original_file
                       /\ res.written = None
                       /\ res.quality_improvements = {}
                       /\ res.chunks_processed = 0

\* C1 witness: a file of exactly 60 s with both options set went to the enhancer
C1_Witness ==
    /\ call # None
    /\ AnalysedSeconds = 60
    /\ call[1].options.chunk_large_files
    /\ \E res \in ProducedResults : res.path = "direct" /\ res.success

\* The async jobs accepted so far
Jobs == {accepted[i] : i \in 1..Len(accepted)}

Holds(tasks, j) == \E w \in DOMAIN tasks : tasks[w] = Some(j)

\* The states of the job state machine that job j is in, read off the queue,
\* the worker's task and the status entry under the job's id
JobStatesIn(queue, tasks, statuses, j) ==
    (IF \E i \in 1..Len(queue) : queue[i] = j THEN {"Queued"} ELSE {})
    \cup (IF Holds(tasks, j) THEN {"Running"} ELSE {})
    \cup (IF j.task_id \in DOMAIN statuses /\ statuses[j.task_id].success
          THEN {"Completed"} ELSE {})
    \cup (IF j.task_id \in DOMAIN statuses /\ ~statuses[j.task_id].success
          THEN {"Failed"} ELSE {})

JobTransitions ==
    {<<{"Queued"}, {"Queued"}>>, <<{"Queued"}, {"Running"}>>,
     <<{"Running"}, {"Running"}>>, <<{"Running"}, {"Completed"}>>,
     <<{"Running"}, {"Failed"}>>, <<{"Completed"}, {"Completed"}>>,
     <<{"Failed"}, {"Failed"}>>}

\* C2: every async job is at any time in exactly one of Queued, Running,
\* Completed, Failed; it starts Queued and moves only Queued -> Running ->
\* Completed or Failed; a terminal state is never left and no job is dropped.
C2_JobStateMachine ==
    [][\A j \in Jobs' :
          IF j \in Jobs
          THEN <<JobStatesIn(processing_queue, worker_task, active_processes, j),
                 JobStatesIn(processing_queue', worker_task', active_processes', j)>>
                   \in JobTransitions
          ELSE JobStatesIn(processing_queue', worker_task', active_processes', j)
                   = {"Queued"}]_vars

\* Two accepted jobs never share an id
UniqueIds == \A a, b \in Jobs : a.task_id = b.task_id => a = b

\* C2, for the behaviours in which no two jobs were given the same id
C2_WithUniqueIds ==
    [][UniqueIds' =>
       \A j \in Jobs' :
          IF j \in Jobs
          THEN <<JobStatesIn(processing_queue, worker_task, active_processes, j),
                 JobStatesIn(processing_queue', worker_task', active_processes', j)>>
                   \in JobTransitions
          ELSE JobStatesIn(processing_queue', worker_task', active_processes', j)
                   = {"Queued"}]_vars

Started(j) == Holds(worker_task, j) \/ j.seq \in recorded

\* C3: async jobs run in enqueue order: when the worker starts a job, every job
\* accepted before it has been run to its end and its status has been stored.
C3_Fifo ==
    \A a, b \in Jobs :
        (a.seq < b.seq /\ Started(b)) =>
            (a.seq \in recorded /\ get_processing_status(a.task_id) # None)

\* C3 witness: three jobs, the first stored, the second running, the third queued
C3_Witness ==
    /\ Len(accepted) = 3
    /\ 1 \in recorded
    /\ Holds(worker_task, accepted[2])
    /\ processing_queue = <<accepted[3]>>

\* C4: at most one async job is Running, whatever calls are interleaved.
C4_OneRunning ==
    /\ Cardinality({w \in DOMAIN worker_task : worker_task[w] # None}) <= 1
    /\ Cardinality({j \in Jobs : Holds(worker_task, j)}) <= 1

\* C4 witness: a synchronous call returned while a job runs and another waits
C4_Witness ==
    /\ \E j \in Jobs : Holds(worker_task, j)
    /\ processing_queue # <<>>
    /\ ret # None
    /\ ret[1].op = "process_audio_sync"

\* C5: every accepted job eventually has its result stored, where
\* get_processing_status returns it, also behind a job that failed.
C5_EveryJobFinishes ==
    \A s \in 1..MaxJobs :
        (Len(accepted) >= s) ~>
            (s \in recorded /\ get_processing_status(accepted[s].task_id) # None)

\* C5 witness: a job was stored after the job before it had failed
C5_Witness ==
    /\ Len(accepted) >= 2
    /\ recorded = {1}
    /\ ~active_processes[accepted[1].task_id].success
    /\ Holds(worker_task, accepted[2])

\* C6: the status entry of a job id is written once, when the job ends: no entry
\* is visible under a job's id before that job's result is stored, and an entry
\* never changes or disappears afterwards.
C6_WrittenOnce ==
    [][/\ \A j \in Jobs :
              j.seq \notin recorded => get_processing_status(j.task_id) = None
       /\ \A id \in DOMAIN active_processes :
              Get(active_processes', id) = Some(active_processes[id])]_vars

\* The input file is missing, unreadable or corrupt for the whole call
BadInput == call[1].env.at.kind # "good"

\* The public operations of OptimizedAudioProcessor
PublicOperations ==
    {"analyze_audio_file", "process_audio_sync", "process_audio_async",
     "get_optimization_recommendations", "cleanup_processed_files"}

\* C7, as claimed: no public operation raises, whatever the state of the file;
\* on a missing, unreadable or corrupt file analyze returns the zeroed record
\* with format "error" and process returns a result with success = false.
C7_NeverRaises ==
    /\ (ret # None /\ ret[1].op \in PublicOperations) =>
          /\ ~ret[1].raised
          /\ (ret[1].op = "analyze_audio_file" /\ BadInput)
                => ret[1].value[1] = ErrorMetadata
    /\ (call # None /\ BadInput) => \A res \in ProducedResults : ~res.success

\* C7, as the code has it: no public operation raises; on a bad file analyze
\* returns the zeroed record with format "error"; process returns success =
\* false with an error message when enhance_quality is set, and the
\* pass-through result (success = true, processed file = the input) when it is
\* not, because pass-through never opens the file.
C7_NeverRaisesAmended ==
    /\ (ret # None /\ ret[1].op \in PublicOperations) =>
          /\ ~ret[1].raised
          /\ (ret[1].op = "analyze_audio_file" /\ BadInput)
                => ret[1].value[1] = ErrorMetadata
    /\ (call # None /\ BadInput) =>
          \A res \in ProducedResults :
              IF call[1].options.enhance_quality
              THEN /\ ~res.success
                   /\ res.error_message # "None"
                   /\ res.processed_file = "None"
              ELSE /\ res.success
                   /\ res.path = "passthrough"
                   /\ res.processed_file = call[1].file_path
                   /\ res.metadata = Some(ErrorMetadata)

\* C7 witness: process_audio_sync of a missing file without enhancement
\* returned a success
C7_Witness ==
    /\ ret # None
    /\ ret[1].op = "process_audio_sync"
    /\ call[1].env.at.kind = "missing"
    /\ ~call[1].options.enhance_quality
    /\ ret[1].value[1].success

\* C8, as claimed: a processed file reference is present only when success is
\* true and a transformation occurred (a file was written by the call).
C8_ProcessedFile ==
    \A res \in ProducedResults :
        res.processed_file # "None" => (res.success /\ res.written # None)

\* C8, as the code has it: a processed file reference is present exactly when
\* success is true; it is a file the call wrote on the chunked and the direct
\* path (also when the enhancer fell back to the unenhanced audio), and the
\* input file itself, untouched, on the pass-through path.
C8_ProcessedFileAmended ==
    \A res \in ProducedResults :
        /\ res.processed_file # "None" <=> res.success
        /\ (res.success /\ res.path \in {"chunked", "direct"})
              => (res.processed_file = TempPath /\ res.written # None)
        /\ (res.success /\ res.path = "passthrough")
              => (res.processed_file = res.original_file /\ res.written = None)
        /\ ~res.success => res.written = None

\* C8 witness: pass-through of a readable file: a processed file reference and
\* no file written
C8_Witness ==
    /\ call # None
    /\ ~BadInput
    /\ \E res \in ProducedResults :
          /\ res.path = "passthrough"
          /\ res.processed_file = res.original_file
          /\ res.written = None

\* C9, as claimed: chunks_processed is at least 1 whenever the chunked path
\* executed, and 0 on the direct and the pass-through path.
C9_ChunksProcessed ==
    \A res \in ProducedResults :
        /\ res.path = "chunked" => res.chunks_processed >= 1
        /\ res.path \in {"direct", "passthrough"} => res.chunks_processed = 0

\* The number of chunks of the file of the call under study
CallNumChunks ==
    NumChunks(call[1].env.st.duration * call[1].env.st.sample_rate,
              ChunkSamples(call[1].env.st.sample_rate))

\* C9, as the code has it: chunks_processed is the number of chunks (at least
\* 1) when the chunked path succeeded, and 0 when the chunked path failed and
\* on the direct and the pass-through path.
C9_ChunksProcessedAmended ==
    call # None =>
    \A res \in ProducedResults :
        /\ (res.path = "chunked" /\ res.success)
              => (res.chunks_processed >= 1 /\ res.chunks_processed = CallNumChunks)
        /\ (res.path = "chunked" /\ ~res.success) => res.chunks_processed = 0
        /\ res.path \in {"direct", "passthrough"} => res.chunks_processed = 0

\* C9 witness: a chunked job whose third chunk could not be read
C9_Witness ==
    /\ call # None
    /\ call[1].env.read_fail = 3
    /\ \E res \in ProducedResults :
          res.path = "chunked" /\ ~res.success /\ res.chunks_processed = 0

\* The enhancement of chunk k raises out of a stage of enhance_audio
EnhRaises(env, k) ==
    \/ "volume_normalization" \in StageFail(env, k)
    \/ "resampling" \in StageFail(env, k) /\ env.st.sample_rate # target_sample_rate

\* A failure result of the chunked path
Aborted(res) ==
    /\ ~res.success
    /\ res.original_file = call[1].file_path
    /\ res.error_message # "None"
    /\ res.processed_file = "None"

ApplicableStages ==
    {"volume_normalization", "noise_reduction", "highpass_filter"}
        \cup (IF CallAudio.sr # target_sample_rate THEN {"resampling"} ELSE {})
        \cup (IF CallAudio.ch > 1 THEN {"mono_conversion"} ELSE {})

\* The stages whose exception no handler of their own catches
UnguardedStages == {"volume_normalization", "resampling", "mono_conversion"}

EnhanceReturned == ret # None /\ ret[1].op = "enhance_audio"

TranscribeReturned == ret # None /\ ret[1].op = "transcribe_audio"

\* The recognizer and the database would have served the original file
OriginalUsable ==
    /\ call[1].env.st.kind = "good"
    /\ call[1].service.recognizer_ok
    /\ call[1].service.save_ok

OptimizationFailed ==
    /\ TranscribeReturned
    /\ ret[1].value[1].processing_result # None
    /\ ~ret[1].value[1].processing_result[1].success

\* C12: when the optimization of a transcription returns success = false the
\* recognizer is given the original file, no processed file is read or removed,
\* and the transcription succeeds exactly when it would have succeeded on the
\* original file without any optimization.
C12_FallBackToOriginal ==
    /\ TranscribeReturned => ~ret[1].raised
    /\ OptimizationFailed =>
          /\ ret[1].value[1].recognized = Some(call[1].file_path)
          /\ ret[1].value[1].unlinked = {}
          /\ ret[1].value[1].success <=> OriginalUsable

\* C12 witness: the optimization failed on a write error and the transcription
\* of the original file succeeded
C12_Witness ==
    /\ OptimizationFailed
    /\ ~call[1].env.write_ok
    /\ ret[1].value[1].success
    /\ ret[1].value[1].recognized = Some(call[1].file_path)

\* C13: every successful result of the direct and of the chunked path describes
\* an output at the target rate and channel count: metadata.sample_rate (the
\* rate the file is written with, lines 365/370 and 558/563) is 16000 and
\* metadata.channels is 1, for every source sample rate.
C13_TargetFormat ==
    \A res \in ProducedResults :
        (res.success /\ res.path \in {"direct", "chunked"}) =>
            /\ res.metadata[1].sample_rate = target_sample_rate
            /\ res.metadata[1].channels = 1

\* C13, on the direct path alone
C13_DirectTargetFormat ==
    \A res \in ProducedResults :
        (res.success /\ res.path = "direct") =>
            /\ res.metadata[1].sample_rate = target_sample_rate
            /\ res.metadata[1].channels = 1

CleanupReturned == ret # None /\ ret[1].op = "cleanup_processed_files"

\* The entries of the listing of the call, and those past the age threshold
Entries == {call[1].listing[k] : k \in 1..Len(call[1].listing)}
PastThreshold == {e \in Entries : e.age > call[1].max_age_hours * 3600}

\* C14: cleanup removes a file only if its age exceeds max_age_hours; when no
\* file operation fails, every file past the threshold is gone after the call
\* and every file at or below it is still present.
C14_AgeBased ==
    CleanupReturned =>
        /\ ret[1].value[1] \subseteq {e.name : e \in PastThreshold}
        /\ (\A e \in Entries : e.stat_ok /\ e.unlink_ok)
              => ret[1].value[1] = {e.name : e \in PastThreshold}

\* C14 witness: files aged 1 h and 30 h, cleanup(24) removed only the second
C14_Witness ==
    /\ CleanupReturned
    /\ call[1].max_age_hours = 24
    /\ Len(call[1].listing) = 2
    /\ call[1].listing[1].age = 3600
    /\ call[1].listing[2].age = 108000
    /\ ret[1].value[1] = {call[1].listing[2].name}

\* C15, as claimed: a failure on one file (its stat() or its unlink raising) is
\* confined to that file: cleanup does not raise and removes every other file
\* past the threshold.
C15_FailureConfined ==
    CleanupReturned =>
        /\ ~ret[1].raised
        /\ ret[1].value[1]
              = {e.name : e \in {x \in PastThreshold : x.stat_ok /\ x.unlink_ok}}

\* The entries listed before the first one whose stat() raises
BeforeFirstStatFailure ==
    {call[1].listing[k] :
        k \in {i \in 1..Len(call[1].listing) :
                  \A j \in 1..i : call[1].listing[j].stat_ok}}

\* C15, as the code has it: cleanup never raises; an unlink failure is confined
\* to its file; a stat() failure ends the call: the files listed after that
\* file are neither examined nor removed.
C15_FailureConfinedAmended ==
    CleanupReturned =>
        /\ ~ret[1].raised
        /\ ret[1].value[1]
              = {e.name : e \in {x \in PastThreshold \cap BeforeFirstStatFailure :
                                    x.unlink_ok}}

\* C15 witness: the first file vanished before its stat(), and the second,
\* 30 h old and removable, was left in place
C15_Witness ==
    /\ CleanupReturned
    /\ call[1].max_age_hours = 24
    /\ Len(call[1].listing) = 2
    /\ ~call[1].listing[1].stat_ok
    /\ call[1].listing[2].age = 108000
    /\ call[1].listing[2].stat_ok /\ call[1].listing[2].unlink_ok
    /\ ret[1].value[1] = {}

\* C16: the work queue is bounded: some capacity below the number of calls made
\* holds the queue back, so that the queue never holds MaxJobs jobs, however
\* many process_audio_async calls are made while the worker is busy.
C16_QueueBounded == Len(processing_queue) <= MaxJobs - 1

LargeFileReturned == ret # None /\ ret[1].op = "process_large_file"

\* What the same call returns when no callback is supplied
WithoutCallback ==
    process_large_file(call[1].file_path, WithCallback(call[1].env, NoCallback))

\* An invocation of the callback that the call made raised
CallbackRaised ==
    /\ call[1].env.progress_callback.supplied
    /\ call[1].env.progress_callback.raises_at
           \in 1..Len(progress_calls(call[1].env))

\* The callback was invoked once at the start and then after each chunk, in
\* increasing chunk order
InvokedInOrder ==
    progress_calls(call[1].env) = [k \in 1..(ret[1].value[1].chunks_processed + 1) |-> k - 1]

\* C17, as claimed: the progress callback is purely advisory: it is invoked
\* after each chunk in increasing chunk order, and the result of the job is the
\* same whether or not a callback is supplied and whatever the callback does,
\* including when it raises.
C17_CallbackAdvisory ==
    LargeFileReturned =>
        /\ ret[1].value = WithoutCallback.value
        /\ (call[1].env.progress_callback.supplied /\ ret[1].value[1].success)
              => InvokedInOrder

\* C17, as the code has it: a callback that returns is invoked after each chunk
\* in increasing chunk order and leaves the result what it is without a
\* callback; a callback that raises aborts the job: the exception is caught by
\* the handler of process_large_file and the result has success = false, the
\* callback's error and no processed file.
C17_CallbackAdvisoryAmended ==
    LargeFileReturned =>
        /\ ~ret[1].raised
        /\ IF CallbackRaised
           THEN /\ ~ret[1].value[1].success
                /\ ret[1].value[1].error_message = "CallbackError"
                /\ ret[1].value[1].processed_file = "None"
           ELSE /\ ret[1].value = WithoutCallback.value
                /\ (call[1].env.progress_callback.supplied
                        /\ ret[1].value[1].success) => InvokedInOrder

\* C17 witness: a job that succeeds without a callback failed because the
\* callback raised after the second chunk
C17_Witness ==
    /\ LargeFileReturned
    /\ call[1].env.progress_callback = Callback(TRUE, 3)
    /\ WithoutCallback.value[1].success
    /\ ~ret[1].value[1].success

StitchReturned == ret # None /\ ret[1].op = "concatenate_with_crossfade"

\* C18: stitching a list of one chunk returns that chunk unmodified, for every
\* overlap value.
C18_SingleChunk ==
    (StitchReturned /\ Len(call[1].args.chunks) = 1) =>
        /\ ~ret[1].raised
        /\ ret[1].value[1] = call[1].args.chunks[1]

\* C18 witness: a lone chunk of three samples came back whole although the
\* overlap is as long as the chunk
C18_Witness ==
    /\ StitchReturned
    /\ call[1].args.chunks = << <<8, 8, 8>> >>
    /\ call[1].args.overlap_samples = 3
    /\ ret[1].value[1] = <<8, 8, 8>>

SplitStitchReturned == ret # None /\ ret[1].op = "split_and_stitch"

\* C19: with overlap 0, splitting a signal into its chunk windows and stitching
\* them in index order gives back the signal, for every signal length and chunk
\* size, a short last chunk included.
C19_RoundTrip ==
    (SplitStitchReturned /\ call[1].args.overlap_samples = 0) =>
        /\ ~ret[1].raised
        /\ ret[1].value[1] = call[1].args.signal

\* C19 witness: five samples in chunks of two, the last chunk short
C19_Witness ==
    /\ SplitStitchReturned
    /\ call[1].args.overlap_samples = 0
    /\ call[1].args.chunk_samples = 2
    /\ call[1].args.signal = <<0, 8, 8, 0, 8>>
    /\ ret[1].value[1] = <<0, 8, 8, 0, 8>>

\* The should-enhance rule on what the analysis of the file of the call reports
RuleHolds ==
    \/ call[1].env.at.quality < 600
    \/ call[1].env.at.noise > 300
    \/ call[1].env.at.duration > 300

\* A transcription whose file was accepted and analysed without a failure
Analysed ==
    /\ TranscribeReturned
    /\ call[1].service.valid
    /\ call[1].env.at.kind = "good"
    /\ ~call[1].env.quality_failed

\* C20: the should-enhance decision is true iff quality_score < 0.6 or
\* noise_level > 0.3 or duration > 300 s (strict); it is true for (0.5, 0.1, 10)
\* and false for (0.9, 0.1, 10); when it is false process is not called and the
\* original file goes to the recognizer.
C20_ShouldEnhance ==
    /\ should_enhance(AudioMetadata(10000, 16000, 1, "wav", 0, 500, 100, 667))
    /\ ~should_enhance(AudioMetadata(10000, 16000, 1, "wav", 0, 900, 100, 667))
    /\ Analysed =>
          /\ ret[1].value[1].processing_result # None <=> RuleHolds
          /\ ~RuleHolds => ret[1].value[1].recognized = Some(call[1].file_path)
          /\ ~RuleHolds => ret[1].value[1].unlinked = {}

\* C20 witness: a file exactly on the three thresholds (0.6, 0.3, 300 s) went to
\* the recognizer as it is
C20_Witness ==
    /\ Analysed
    /\ call[1].env.at.quality = 600
    /\ call[1].env.at.noise = 300
    /\ call[1].env.at.duration = 300
    /\ ret[1].value[1].processing_result = None
    /\ ret[1].value[1].recognized = Some(call[1].file_path)

QualityReturned == ret # None /\ ret[1].op = "analyze_quality"

\* A score is a number of [0, 1]
InUnitInterval(x) == ~x.nan /\ 0 <= x.v /\ x.v <= 1000

\* C21: for every finite input buffer, all-zero, saturated and shorter than 10
\* samples included, the quality_score, noise_level and speech_probability that
\* analyze_quality returns (and analyze_audio_file stores in AudioMetadata,
\* lines 480-482) lie in [0, 1].
C21_ScoresInRange ==
    QualityReturned =>
        /\ InUnitInterval(ret[1].value[1].quality_score)
        /\ InUnitInterval(ret[1].value[1].noise_level)
        /\ InUnitInterval(ret[1].value[1].speech_probability)

\* C21, for the buffers of ten samples or more
C21_LongBuffersInRange ==
    (QualityReturned /\ Len(call[1].args.audio_data) >= 10) =>
        /\ InUnitInterval(ret[1].value[1].quality_score)
        /\ InUnitInterval(ret[1].value[1].noise_level)
        /\ InUnitInterval(ret[1].value[1].speech_probability)

\* The events of a job of n chunks that runs to its end: read 0, enhance 0,
\* read 1, enhance 1, ..., then stitch 0, stitch 1, ...
InIndexOrder(n) ==
    [k \in 1..(3 * n) |->
        IF k > 2 * n THEN Event("stitch", k - 2 * n - 1)
        ELSE Event(IF k % 2 = 1 THEN "read" ELSE "enhance", (k - 1) \div 2)]

\* C22: within one chunked job the chunks are read, enhanced and stitched
\* strictly in increasing index order 0, 1, ..., chunk_count - 1, each exactly
\* once, and chunk i + 1 is not read before chunk i has been enhanced; a job
\* that fails stops somewhere on that sequence.
C22_IndexOrder ==
    LargeFileReturned =>
        IF call[1].env.st.kind # "good" THEN job_events(call[1].env) = <<>>
        ELSE /\ Len(job_events(call[1].env)) <= 3 * CallNumChunks
             /\ job_events(call[1].env)
                   = SubSeq(InIndexOrder(CallNumChunks), 1,
                            Len(job_events(call[1].env)))
             /\ ret[1].value[1].success =>
                   /\ job_events(call[1].env) = InIndexOrder(CallNumChunks)
                   /\ ret[1].value[1].chunks_processed = CallNumChunks

\* C22 witness: a job of three chunks ran to its end
C22_Witness ==
    /\ LargeFileReturned
    /\ ret[1].value[1].success
    /\ CallNumChunks = 3
    /\ Len(job_events(call[1].env)) = 9
    /\ job_events(call[1].env)[3] = Event("read", 1)
    /\ job_events(call[1].env)[9] = Event("stitch", 2)

\* n is max(1, ceil(total_samples / chunk_samples)): the least count of at
\* least one whose chunks hold total_samples samples
IsChunkCount(n, total_samples, chunk_samples) ==
    /\ n >= 1
    /\ n * chunk_samples >= total_samples
    /\ n = 1 \/ (n - 1) * chunk_samples < total_samples

\* The chunked job of the call under study returned a success
LargeFileSucceeded ==
    /\ LargeFileReturned
    /\ ret[1].value # None
    /\ ret[1].value[1].success

\* C23: for every total_samples >= 0 and chunk_samples >= 1 the chunked
\* processor uses max(1, ceil(total_samples / chunk_samples)) chunks and reports
\* that number as chunks_processed on success; a 400-second file with 30-second
\* chunks gives 14.
C23_ChunkCount ==
    /\ SplitStitchReturned =>
          IsChunkCount(Len(split(call[1].args.signal, call[1].args.chunk_samples,
                                 call[1].args.overlap_samples)),
                       Len(call[1].args.signal), call[1].args.chunk_samples)
    /\ LargeFileReturned => ret[1].value # None
    /\ LargeFileSucceeded =>
          /\ IsChunkCount(ret[1].value[1].chunks_processed,
                          call[1].env.st.duration * call[1].env.st.sample_rate,
                          chunk_duration * call[1].env.st.sample_rate)
          /\ Len(job_events(call[1].env)) = 3 * ret[1].value[1].chunks_processed
          /\ call[1].env.st.duration = 400 => ret[1].value[1].chunks_processed = 14
    /\ call # None =>
          \A res \in ProducedResults :
              (res.path = "chunked" /\ res.success) =>
                  IsChunkCount(res.chunks_processed,
                               call[1].env.st.duration * call[1].env.st.sample_rate,
                               chunk_duration * call[1].env.st.sample_rate)

\* C23 witness: a 400-second file was processed in 14 chunks
C23_Witness ==
    /\ LargeFileSucceeded
    /\ call[1].env.st.duration = 400
    /\ ret[1].value[1].chunks_processed = 14

\* C23 witness for the floor: an empty file was processed as one chunk
C23_EmptyFileWitness ==
    /\ LargeFileSucceeded
    /\ call[1].env.st.duration = 0
    /\ ret[1].value[1].chunks_processed = 1

\* The source samples (1-based positions of the signal) of the window the claim
\* gives chunk i: from i * chunk_samples - overlap_samples (from 0 for chunk 0)
\* over chunk_samples + overlap_samples (chunk_samples for chunk 0) samples
ClaimedFirst(i) ==
    IF i = 0 THEN 1
    ELSE i * call[1].args.chunk_samples - call[1].args.overlap_samples + 1
ClaimedLast(i) ==
    Min((i + 1) * call[1].args.chunk_samples, Len(call[1].args.signal))
ClaimedWindow(i) == ClaimedFirst(i)..ClaimedLast(i)

\* The windows process_large_file reads from the signal of the call
CallWindows ==
    split(call[1].args.signal, call[1].args.chunk_samples,
          call[1].args.overlap_samples)

\* The overlap is not longer than a chunk, as with the 2 s and 30 s of the
\* chunked processor
OverlapWithinChunk ==
    /\ SplitStitchReturned
    /\ call[1].args.overlap_samples <= call[1].args.chunk_samples

\* C24: chunk 0 is read from sample 0 with length chunk_samples and no left
\* overlap; every chunk i > 0 is read from i * chunk_samples - overlap_samples
\* with length chunk_samples + overlap_samples (cut at the end of the file), so
\* chunks i - 1 and i share exactly overlap_samples source samples and the
\* union of all windows covers the whole file.
C24_Windows ==
    OverlapWithinChunk =>
        /\ window_start(0, call[1].args.chunk_samples,
                        call[1].args.overlap_samples) = 0
        /\ window_length(0, call[1].args.chunk_samples,
                         call[1].args.overlap_samples) = call[1].args.chunk_samples
        /\ \A i \in 0..(Len(CallWindows) - 1) :
              /\ CallWindows[i + 1]
                    = SubSeq(call[1].args.signal, ClaimedFirst(i), ClaimedLast(i))
              /\ i > 0 =>
                    /\ window_length(i, call[1].args.chunk_samples,
                                     call[1].args.overlap_samples)
                          = call[1].args.chunk_samples + call[1].args.overlap_samples
                    /\ Cardinality(ClaimedWindow(i - 1) \cap ClaimedWindow(i))
                          = call[1].args.overlap_samples
                    /\ Len(CallWindows[i + 1])
                          = Cardinality(ClaimedWindow(i))
        /\ UNION {ClaimedWindow(i) : i \in 0..(Len(CallWindows) - 1)}
              = 1..Len(call[1].args.signal)

\* C24 witness: five samples in chunks of two with an overlap of one: the
\* windows are samples 1-2, 2-4 and 4-5
C24_Witness ==
    /\ OverlapWithinChunk
    /\ call[1].args.signal = <<0, 8, 8, 0, 8>>
    /\ call[1].args.chunk_samples = 2
    /\ call[1].args.overlap_samples = 1
    /\ CallWindows = << <<0, 8>>, <<8, 8, 0>>, <<0, 8>> >>

\* The chunks and the overlap of the stitching call under study
Outgoing == call[1].args.chunks[1]
Incoming == call[1].args.chunks[2]
Overlap == call[1].args.overlap_samples

\* Two chunks that both hold an overlap region of Overlap > 0 samples
TwoChunksStitched ==
    /\ StitchReturned
    /\ Len(call[1].args.chunks) = 2
    /\ Overlap > 0
    /\ Len(Outgoing) >= Overlap
    /\ Len(Incoming) >= Overlap

\* The weights of a linear ramp of Overlap points at point k (0-based), as
\* numerators over RampSteps: from 1 down to 0 and from 0 up to 1
RampSteps == IF Overlap = 1 THEN 1 ELSE Overlap - 1
RampDown(k) == IF Overlap = 1 THEN 1 ELSE Overlap - 1 - k
RampUp(k) == IF Overlap = 1 THEN 0 ELSE k

\* C25: when two consecutive chunks are stitched with overlap O > 0, output
\* sample k of the overlap region is tail[k] * fade_out[k] + head[k] * fade_in[k]
\* with fade_out linear from 1 to 0 and fade_in linear from 0 to 1 (the weights
\* sum to 1 at every k), the samples before the region are those of the
\* outgoing chunk, the incoming chunk's samples after its first O are appended
\* unmodified, and the output length is len(outgoing) + len(incoming) - O.
C25_Crossfade ==
    TwoChunksStitched =>
        /\ ~ret[1].raised
        /\ Len(ret[1].value[1]) = Len(Outgoing) + Len(Incoming) - Overlap
        /\ \A k \in 0..(Overlap - 1) :
              /\ fade_out(Overlap, k) = RampDown(k)
              /\ fade_in(Overlap, k) = RampUp(k)
              /\ fade_out(Overlap, k) + fade_in(Overlap, k) = FadeSteps(Overlap)
              /\ ret[1].value[1][Len(Outgoing) - Overlap + k + 1]
                    = (Outgoing[Len(Outgoing) - Overlap + k + 1] * RampDown(k)
                         + Incoming[k + 1] * RampUp(k)) \div RampSteps
        /\ SubSeq(ret[1].value[1], 1, Len(Outgoing) - Overlap)
              = SubSeq(Outgoing, 1, Len(Outgoing) - Overlap)
        /\ SubSeq(ret[1].value[1], Len(Outgoing) + 1, Len(ret[1].value[1]))
              = SubSeq(Incoming, Overlap + 1, Len(Incoming))

\* C25 witness: a chunk of three samples at 8 fades over three samples into a
\* silent chunk: 8, 4, 0
C25_Witness ==
    /\ TwoChunksStitched
    /\ Outgoing = <<8, 8, 8>>
    /\ Incoming = <<0, 0, 0>>
    /\ Overlap = 3
    /\ ret[1].value[1] = <<8, 4, 0>>

\* C26: job ids are unique: two process_audio_async calls on the same
\* orchestrator never return the same job id, two calls for the same file path
\* at the same clock reading included, so that no job's status entry is stored
\* under an id that another job holds.
C26_UniqueJobIds ==
    \A i, j \in 1..Len(accepted) :
        accepted[i].task_id = accepted[j].task_id => i = j

\* C27: the sample rate declared for a processed output (the rate the file is
\* written with, which is the rate reported in result.metadata) equals the
\* rate of the samples stored in it, on the chunked and on the direct path, for
\* every source rate, also when the enhancer returned its input unchanged.
C27_DeclaredRate ==
    \A res \in ProducedResults :
        (res.success /\ res.path \in {"direct", "chunked"}) =>
            res.metadata[1].sample_rate = res.written[1].sr

\* C27, on the direct path alone
C27_DirectDeclaredRate ==
    \A res \in ProducedResults :
        (res.success /\ res.path = "direct") =>
            res.metadata[1].sample_rate = res.written[1].sr

\* C27, on the direct path when no stage of the enhancer raised
C27_DirectEnhancedRate ==
    call # None =>
        \A res \in ProducedResults :
            (res.success /\ res.path = "direct" /\ ~EnhRaises(call[1].env, 1)) =>
                res.metadata[1].sample_rate = res.written[1].sr

\* A chunked job on a readable file in which no read, no temporary file, no
\* write and no callback fails
UndisturbedJob ==
    /\ LargeFileReturned
    /\ call[1].env.st.kind = "good"
    /\ call[1].env.read_fail \notin 1..CallNumChunks
    /\ call[1].env.tmp_ok /\ call[1].env.write_ok
    /\ ~CallbackRaised

\* C28: in every chunked job the overlap length used for stitching equals the
\* number of samples that consecutive enhanced chunks share (overlap_duration
\* seconds at the rate of the enhanced chunks), every incoming chunk holds at
\* least that many samples, so that the crossfade never fails, and the stitched
\* output holds each instant of the source exactly once, for every source rate
\* and file length.
C28_OverlapWellDefined ==
    UndisturbedJob =>
        /\ ret[1].value # None
        /\ ret[1].value[1].success
        /\ CallNumChunks >= 2 =>
              OverlapSamples(call[1].env.st.sample_rate)
                  = overlap_duration * ret[1].value[1].written[1].sr
        /\ ret[1].value[1].written[1].n
              = call[1].env.st.duration * ret[1].value[1].written[1].sr

\* C28, for the files whose rate is the target rate of the enhancer
C28_AtTargetRate ==
    (UndisturbedJob /\ call[1].env.st.sample_rate = target_sample_rate) =>
        /\ ret[1].value # None
        /\ ret[1].value[1].success
        /\ CallNumChunks >= 2 =>
              OverlapSamples(call[1].env.st.sample_rate)
                  = overlap_duration * ret[1].value[1].written[1].sr
        /\ ret[1].value[1].written[1].n
              = call[1].env.st.duration * ret[1].value[1].written[1].sr

\* C28, the crossfade alone: an undisturbed job does not fail
C28_CrossfadeDefined ==
    UndisturbedJob => (ret[1].value # None /\ ret[1].value[1].success)

\* C29: a process call that ends with success = false leaves no new file
\* behind in the scratch directory, on the chunked path (also when
\* process_large_file is called on its own) and on the direct path.
C29_NoFileLeftBehind ==
    /\ call # None =>
          \A res \in ProducedResults :
              ~res.success => scratch_files(call[1].options, call[1].env) = {}
    /\ (LargeFileReturned /\ ret[1].value # None /\ ~ret[1].value[1].success)
          => scratch_files_large_file(call[1].env) = {}

\* C29, for the calls that fail before they create their temporary file
C29_EarlyFailures ==
    call # None =>
        \A res \in ProducedResults :
            (~res.success /\ (call[1].env.st.kind # "good" \/ ~call[1].env.tmp_ok))
                => scratch_files(call[1].options, call[1].env) = {}

\* C30: stitching leaves its input chunks unchanged: after
\* _concatenate_with_crossfade has returned for a list of two or more chunks,
\* every chunk of the list, chunk 0 included, holds the samples it held before
\* the call.
C30_InputsUnchanged ==
    (StitchReturned /\ ~ret[1].raised /\ Len(call[1].args.chunks) >= 2) =>
        chunks_after(call[1].args.chunks, call[1].args.overlap_samples)
            = call[1].args.chunks

\* C30, for the chunks after the first
C30_LaterChunksUnchanged ==
    (StitchReturned /\ Len(call[1].args.chunks) >= 2) =>
        \A k \in 2..Len(call[1].args.chunks) :
            chunks_after(call[1].args.chunks, call[1].args.overlap_samples)[k]
                = call[1].args.chunks[k]

====
